---- MODULE Spec2Model ----
(***************************************************************************)
(* Congressional Record ingestion and classification pipeline.             *)
(*                                                                         *)
(*   utils/scrapeNewSessions.py  ModernCongressionalIngestor               *)
(*   utils/filterProcedure.py    keyword purge (Stage A), model (Stage B)  *)
(*                                                                         *)
(* The specifications of the module:                                       *)
(*   SpecFetch     one call of safe_get, one action per loop iteration     *)
(*   SpecWorker    one run of _fetch_single_speech, one action per step    *)
(*   Spec          ingest_range / process_package runs interleaved with    *)
(*                 the classification job, over one durable store          *)
(*   SpecClassify  the classification job alone on a filled store          *)
(*   SpecPool      the worker threads of one page on the shared session    *)
(*   SpecRebuild   utils/mergeSpeeches.py, the rebuild from legacy files   *)
(*   SpecSanitize, SpecClean, SpecResolve, SpecSubstantive, SpecShare      *)
(*                 calls of one function on values of a bounded set        *)
(***************************************************************************)
EXTENDS Integers, Sequences, FiniteSets, TLC

VARIABLES
    \* ---- safe_get (one call) -------------------------------------------
    sg_pc,      \* "idle" | "loop" | "returned"
    sg_i,       \* number of loop iterations already taken (the loop's i)
    sg_ret,     \* what the call returned: NoReturn, None or a response
    sg_log,     \* what the call did so far: requests and sleeps, in order
    \* ---- _fetch_single_speech (one granule) ----------------------------
    w_pc,       \* "idle" | "filter" | "metadata" | "text" | "resolve" | "done"
    w_gran,     \* gran: the granule the worker was given
    w_calls,    \* Fetch Client calls made so far, in order
    w_resps,    \* what safe_get returned to each of them, in order
    w_json,     \* summary_json once the metadata was fetched and parsed
    w_raw,      \* raw_text once the text was fetched and decoded
    w_out,      \* what the call ended in: an outcome tuple or an exception
    \* ---- the durable store and the failure log -------------------------
    speeches,            \* table speeches: a set of rows
    processed_packages,  \* table processed_packages: a set of package ids
    fail_log,            \* failures.log: the distinct entries appended so far
    \* ---- ingest_range / process_package (one process) ------------------
    pc,                  \* "idle" | "listing" | "packages" | "page" | "collect" | "mark" | "crashed"
    processed_ids,       \* ingest_range: the in-memory copy of the ledger
    all_packages,        \* ingest_range: the packages gathered for the year
    list_offset,         \* ingest_range: offset of the package listing
    pkg_i,               \* ingest_range: position of the for loop in all_packages
    offset,              \* process_package: offset of the granule listing
    granules,            \* process_package: the page being processed
    pending,             \* process_package: futures not yet completed
    results_to_insert,   \* process_package: SUCCESS tuples of the page
    \* ---- history of the ingestion, read by the properties only ---------
    attempted,           \* granules that reached an outcome in the running
                         \* process_package call
    errored,             \* those of them whose outcome was ERROR
    produced,            \* those of them whose outcome was SUCCESS
    called,              \* packages process_package was called for in this run
    fetched,             \* packages a granule listing or granule was fetched for in this run
    start_ledger,        \* processed_packages as it was when this run started
    rewritten,           \* speech ids whose row, holding the same fetched data,
                         \* was written again by this run
    interrupted,         \* per package not known done to a finished run: granules
                         \* completed when process_package was last interrupted
                         \* for it, else -1
    \* ---- the classification job (another process) ----------------------
    cl_pc,               \* "updateA" | "fetchB" | "chunkB" | "writeB" while a job
                         \* runs; else "idle" (none ran yet, or the last one ran
                         \* to its end), "stopped" (sys.exit(0) on an interrupt)
                         \* or "failed" (sys.exit(1) on an exception)
    cl_matches,          \* Stage A: speech ids of the rows that matched
    cl_chunk,            \* Stage B: speech ids of the chunk fetched
    cl_results,          \* Stage B: what the classifier gave for the chunk
    cl_updates,          \* Stage B: updates, the (is_proc, speech_id) pairs
    cl_prior,            \* history: the running job found rows already
                         \* classified when it started
    \* ---- calls of the two pure helpers ---------------------------------
    sn_pc,               \* _sanitize_metadata: "idle" | "called" | "again"
    sn_in,               \* the value it was called with
    sn_out,              \* the string it returned
    sn_again,            \* the string it returned when called with sn_out
    cs_pc,               \* clean_speech_text: "idle" | "called" | "again"
    cs_in,               \* the raw text it was called with
    cs_out,              \* the text it returned
    cs_again,            \* the text it returned when called with cs_out
    rs_pc,               \* the speaker resolution: "idle" | "called"
    rs_members,          \* the member list it was called with
    rs_text,             \* the normalized text it was called with
    rs_out,              \* the identity it gave, or the exception
    \* ---- calls of the read side (src/database.py) ----------------------
    sb_pc,               \* is_substantive: "idle" | "called"
    sb_text,             \* the text it was called with
    sb_terms,            \* procedural_terms when it was called
    sb_out,              \* what it returned
    ps_pc,               \* get_partisan_share: "idle" | "called"
    ps_table,            \* the table speeches when it was called
    ps_out,              \* the rows of the frame it returned
    \* ---- the worker pool of one page ----------------------------------
    pl_pc,               \* "idle" | "running" | "joined"
    pl_jobs,             \* granules submitted that no thread has taken
    pl_thread,           \* per thread: its granule, where it is, the
                         \* connection it holds, the cookie it sent
    pl_session,          \* self.session: cookie jar and connection pool
    pl_out,              \* the result of the future of each granule
    \* ---- the rebuild from the legacy files (utils/mergeSpeeches.py) ----
    rb_pc,               \* main: "idle" | "running" | "done" | "crashed"
    rb_i,                \* the session the for loop is at
    rb_files,            \* what the folder held for the session before it
    rb_table,            \* table speeches of the rebuilt database
    rb_log               \* pipeline_rebuild.log: the records, in order

fetchVars == <<sg_pc, sg_i, sg_ret, sg_log>>
workerVars == <<w_pc, w_gran, w_calls, w_resps, w_json, w_raw, w_out>>
storeVars == <<speeches, processed_packages, fail_log>>
runVars == <<pc, processed_ids, all_packages, list_offset, pkg_i, offset,
             granules, pending, results_to_insert>>
histVars == <<attempted, errored, produced, called, fetched, start_ledger, rewritten, interrupted>>
classifyVars == <<cl_pc, cl_matches, cl_chunk, cl_results, cl_updates, cl_prior>>
ingestVars == <<storeVars, runVars, histVars>>
sanitizeVars == <<sn_pc, sn_in, sn_out, sn_again>>
cleanVars == <<cs_pc, cs_in, cs_out, cs_again>>
resolveVars == <<rs_pc, rs_members, rs_text, rs_out>>
readVars == <<sb_pc, sb_text, sb_terms, sb_out, ps_pc, ps_table, ps_out>>
poolVars == <<pl_pc, pl_jobs, pl_thread, pl_session, pl_out>>
rebuildVars == <<rb_pc, rb_i, rb_files, rb_table, rb_log>>
pureVars == <<sanitizeVars, cleanVars, resolveVars, readVars, poolVars, rebuildVars>>

vars == <<fetchVars, workerVars, ingestVars, classifyVars, pureVars>>

-----------------------------------------------------------------------------
(* Rate-limited fetch client: safe_get                                     *)

\* range(3)
MaxAttempts == 3
\* time.sleep(2700) after a 429
RateLimitSleep == 2700
\* time.sleep(2) after any other non-200 status and after an exception
RetrySleep == 2

\* What session.get can do on one attempt: answer with a status code or
\* raise (timeout, connection error).  500, 503 stand for "any other status".
StatusCodes == {200, 429, 404, 500, 503}
Answers == [kind : {"status"}, code : StatusCodes] \cup {[kind |-> "exception", code |-> 0]}

None == [kind |-> "None"]
NoReturn == [kind |-> "NoReturn"]
\* The response object of the attempt-th request.
Response(attempt, code) == [kind |-> "Response", attempt |-> attempt, status_code |-> code]

Request(code) == [ev |-> "request", code |-> code]
Raised == [ev |-> "request", code |-> 0]
Sleep(secs) == [ev |-> "sleep", code |-> secs]

\* The state of one call: st.i iterations taken, st.ret the value returned
\* (NoReturn while the loop runs), st.log the requests and sleeps so far.
SafeGetStart == [i |-> 0, ret |-> NoReturn, log |-> <<>>]

\* A 404 handled by the generic branch: slept on and retried.
SafeGetIter_Retry404(st, ans) ==
    IF ans.kind = "exception"
    THEN [i |-> st.i + 1, ret |-> NoReturn,
          log |-> st.log \o <<Raised, Sleep(RetrySleep)>>]
    ELSE IF ans.code = 200
    THEN [i |-> st.i + 1, ret |-> Response(st.i + 1, ans.code),
          log |-> Append(st.log, Request(ans.code))]
    ELSE IF ans.code = 429
    THEN [i |-> st.i + 1, ret |-> NoReturn,
          log |-> st.log \o <<Request(ans.code), Sleep(RateLimitSleep)>>]
    ELSE [i |-> st.i + 1, ret |-> NoReturn,
          log |-> st.log \o <<Request(ans.code), Sleep(RetrySleep)>>]

\* A 429 handled like a 404: None at once, no cooldown and no retry.
SafeGetIter_GiveUpOn429(st, ans) ==
    IF ans.kind = "exception"
    THEN [i |-> st.i + 1, ret |-> NoReturn,
          log |-> st.log \o <<Raised, Sleep(RetrySleep)>>]
    ELSE IF ans.code = 200
    THEN [i |-> st.i + 1, ret |-> Response(st.i + 1, ans.code),
          log |-> Append(st.log, Request(ans.code))]
    ELSE IF ans.code \in {404, 429}
    THEN [i |-> st.i + 1, ret |-> None,
          log |-> Append(st.log, Request(ans.code))]
    ELSE [i |-> st.i + 1, ret |-> NoReturn,
          log |-> st.log \o <<Request(ans.code), Sleep(RetrySleep)>>]

\* One iteration of "for i in range(3)": the request, then the branch on
\* the status code; an exception of session.get is caught and slept on.
SafeGetIter(st, ans) ==
    IF ans.kind = "exception"
    THEN [i |-> st.i + 1, ret |-> NoReturn,
          log |-> st.log \o <<Raised, Sleep(RetrySleep)>>]
    ELSE IF ans.code = 200
    THEN [i |-> st.i + 1, ret |-> Response(st.i + 1, ans.code),
          log |-> Append(st.log, Request(ans.code))]
    ELSE IF ans.code = 429
    THEN [i |-> st.i + 1, ret |-> NoReturn,
          log |-> st.log \o <<Request(ans.code), Sleep(RateLimitSleep)>>]
    ELSE IF ans.code = 404
    THEN [i |-> st.i + 1, ret |-> None,
          log |-> Append(st.log, Request(ans.code))]
    ELSE [i |-> st.i + 1, ret |-> NoReturn,
          log |-> st.log \o <<Request(ans.code), Sleep(RetrySleep)>>]

\* The loop bound off by one: a fourth attempt.
SafeGetLoopEnds_FourAttempts(st) == st.ret # NoReturn \/ st.i >= MaxAttempts + 1

\* The loop is left by a return inside it or when range(3) is used up.
SafeGetLoopEnds(st) == st.ret # NoReturn \/ st.i >= MaxAttempts

\* The value of the call: the return inside the loop, else the final
\* "return None".
SafeGetValue(st) == IF st.ret # NoReturn THEN st.ret ELSE None

\* The whole call against a given sequence of answers of the remote side.
RECURSIVE SafeGetRun(_, _)
SafeGetRun(st, answers) ==
    IF SafeGetLoopEnds(st) \/ answers = <<>>
    THEN st
    ELSE SafeGetRun(SafeGetIter(st, Head(answers)), Tail(answers))

safe_get(answers) == SafeGetValue(SafeGetRun(SafeGetStart, answers))

AnswerSeqs == [1..MaxAttempts -> Answers]

\* Truthiness of what safe_get returned ("if not resp").
IsResp(r) == r.kind = "Response"

SafeGetCall ==
    /\ sg_pc = "idle"
    /\ sg_pc' = "loop"
    /\ sg_i' = SafeGetStart.i
    /\ sg_ret' = SafeGetStart.ret
    /\ sg_log' = SafeGetStart.log
    /\ UNCHANGED <<workerVars, ingestVars, classifyVars, pureVars>>

SafeGetAttempt ==
    /\ sg_pc = "loop"
    /\ ~SafeGetLoopEnds([i |-> sg_i, ret |-> sg_ret, log |-> sg_log])
    /\ \E ans \in Answers :
         LET st == SafeGetIter([i |-> sg_i, ret |-> sg_ret, log |-> sg_log], ans)
         IN /\ sg_i' = st.i
            /\ sg_ret' = st.ret
            /\ sg_log' = st.log
    /\ sg_pc' = "loop"
    /\ UNCHANGED <<workerVars, ingestVars, classifyVars, pureVars>>

SafeGetReturn ==
    /\ sg_pc = "loop"
    /\ SafeGetLoopEnds([i |-> sg_i, ret |-> sg_ret, log |-> sg_log])
    /\ sg_ret' = SafeGetValue([i |-> sg_i, ret |-> sg_ret, log |-> sg_log])
    /\ sg_pc' = "returned"
    /\ UNCHANGED <<sg_i, sg_log>>
    /\ UNCHANGED <<workerVars, ingestVars, classifyVars, pureVars>>

NextFetch == SafeGetCall \/ SafeGetAttempt \/ SafeGetReturn

-----------------------------------------------------------------------------
(* Granule ingestion worker: _fetch_single_speech                          *)

\* Strings the code searches are sequences of characters.
PgH == <<"P", "g", "H">>
PgS == <<"P", "g", "S">>
PGH == <<"P", "G", "H">>
PGS == <<"P", "G", "S">>
PgE == <<"P", "g", "E">>
PgD == <<"P", "g", "D">>
FrontMatter == <<"F", "r", "o", "n", "t", "M", "a", "t", "t", "e", "r">>
BackMatter == <<"B", "a", "c", "k", "M", "a", "t", "t", "e", "r">>
Pt1 == <<"p", "t", "1", "-">>

\* Python's "x in s" on strings.
IsSubstring(x, s) ==
    \E i \in 0..(Len(s) - Len(x)) : SubSeq(s, i + 1, i + Len(x)) = x

\* Granule identifiers (the part after the package id).
gH1 == Pt1 \o PgH \o <<"1">>
gS2 == Pt1 \o PgS \o <<"2">>
gE3 == Pt1 \o PgE \o <<"3">>
gD4 == Pt1 \o PgD \o <<"4">>
gUH5 == Pt1 \o PGH \o <<"5">>
gUS6 == Pt1 \o PGS \o <<"6">>
gFront == Pt1 \o FrontMatter
gBack == Pt1 \o BackMatter
gHFront == Pt1 \o PgH \o <<"7", "-">> \o FrontMatter
gSBack == Pt1 \o PgS \o <<"8", "-">> \o BackMatter
gLower == Pt1 \o <<"p", "g", "h", "9">>
WorkerGranIds == {gH1, gS2, gE3, gD4, gUH5, gUS6, gFront, gBack, gHFront, gSBack, gLower}

\* Extracted text as a sequence of fragments: boilerplate the normalizer
\* removes ("hdr"), and content of n characters that stays; kw says whether
\* the content holds one of the procedural phrases ("phrase"), only a text
\* that differs from one in the place of a period ("near"), or neither
\* ("none"); title says how it opens: with no
\* courtesy title ("none"), with "Mr. NAME." ("name"), or with a title whose
\* name part is blank once the boilerplate between is gone ("blank").
Hdr == [k |-> "hdr", n |-> 30, kw |-> "none", title |-> "none"]
Words(n) == [k |-> "txt", n |-> n, kw |-> "none", title |-> "none"]
Phrase(n) == [k |-> "txt", n |-> n, kw |-> "phrase", title |-> "name"]
\* Content like "mrs speaker": "mr. speaker" with another character where
\* the phrase has its period.
NearPhrase(n) == [k |-> "txt", n |-> n, kw |-> "near", title |-> "none"]
BlankTitle(n) == [k |-> "txt", n |-> n, kw |-> "none", title |-> "blank"]

\* One blank, and one closing bracket "]" (a footer "... [www.gpo.gov]" is
\* a boilerplate fragment up to "gpo.gov" followed by one).
Space == [k |-> "sp", n |-> 1, kw |-> "none", title |-> "none"]
Bracket == [k |-> "rb", n |-> 1, kw |-> "none", title |-> "none"]

\* re.sub(r'\s+', ' ', raw_text): every run of blanks becomes one blank.
RECURSIVE CollapseSpaces(_)
CollapseSpaces(text) ==
    IF Len(text) < 2 THEN text
    ELSE IF text[1].k = "sp" /\ text[2].k = "sp" THEN CollapseSpaces(Tail(text))
    ELSE <<text[1]>> \o CollapseSpaces(Tail(text))

\* The longest prefix length of text whose fragments are all of the kinds.
RECURSIVE LeadingRun(_, _)
LeadingRun(text, kinds) ==
    IF text = <<>> \/ Head(text).k \notin kinds THEN 0
    ELSE 1 + LeadingRun(Tail(text), kinds)

Reverse(text) == [i \in 1..Len(text) |-> text[Len(text) + 1 - i]]

\* .strip()
StripSpaces(text) ==
    LET a == LeadingRun(text, {"sp"})
        b == LeadingRun(Reverse(text), {"sp"})
    IN IF a = Len(text) THEN <<>> ELSE SubSeq(text, a + 1, Len(text) - b)

\* re.sub(r"^[\s\]\)]+", "", text): blanks and closing brackets at the start.
DropLeading(text) == SubSeq(text, LeadingRun(text, {"sp", "rb"}) + 1, Len(text))

\* re.sub(r"\]\s*\]", "", text): from left to right, every "]" that is
\* followed, after blanks or none, by another "]" is cut out with it.
RECURSIVE DropBracketPairs(_)
DropBracketPairs(text) ==
    IF text = <<>> THEN <<>>
    ELSE LET j == 2 + LeadingRun(Tail(text), {"sp"})
         IN IF Head(text).k = "rb" /\ j <= Len(text) /\ text[j].k = "rb"
            THEN DropBracketPairs(SubSeq(text, j + 1, Len(text)))
            ELSE <<Head(text)>> \o DropBracketPairs(Tail(text))

\* clean_speech_text: the blanks are collapsed, the header and footer
\* patterns cut out where they stand, then the leading and the doubled
\* brackets, with a strip after each part.
clean_speech_text(raw_text) ==
    LET collapsed == StripSpaces(CollapseSpaces(raw_text))
        headless == SelectSeq(collapsed, LAMBDA f : f.k # "hdr")
        led == StripSpaces(DropLeading(headless))
    IN StripSpaces(DropBracketPairs(led))

RECURSIVE TextLen(_)
TextLen(text) == IF text = <<>> THEN 0 ELSE Head(text).n + TextLen(Tail(text))

\* len(clean_text) < 50
GhostLen == 50

\* ---- _sanitize_metadata ----

\* Python values as the metadata holds them. A string is a sequence of
\* characters, a mapping a sequence of key and value pairs with distinct
\* keys, in insertion order.
PyNone == [kind |-> "none"]
PyStr(chars) == [kind |-> "str", s |-> chars]
PyNum(n) == [kind |-> "num", n |-> n]
PyList(items) == [kind |-> "list", items |-> items]
PyDict(pairs) == [kind |-> "dict", pairs |-> pairs]

\* bool(value): None, "", 0, [] and {} are false.
Truthy(value) ==
    CASE value.kind = "none" -> FALSE
      [] value.kind = "str" -> value.s # <<>>
      [] value.kind = "num" -> value.n # 0
      [] value.kind = "list" -> value.items # <<>>
      [] value.kind = "dict" -> value.pairs # <<>>

\* value.get(key)
Get(value, key) ==
    IF \E i \in 1..Len(value.pairs) : value.pairs[i].key = key
    THEN value.pairs[CHOOSE i \in 1..Len(value.pairs) : value.pairs[i].key = key].val
    ELSE PyNone

DigitChars == <<"0", "1", "2", "3", "4", "5", "6", "7", "8", "9">>
RECURSIVE Digits(_)
Digits(n) ==
    IF n < 10 THEN <<DigitChars[n + 1]>>
    ELSE Digits(n \div 10) \o <<DigitChars[(n % 10) + 1]>>

Quoted(chars) == <<"'">> \o chars \o <<"'">>

\* repr(value), for strings that hold no quote and no backslash.
RECURSIVE Repr(_)
RECURSIVE ReprItems(_)
RECURSIVE ReprPairs(_)
ReprItems(items) ==
    IF items = <<>> THEN <<>>
    ELSE Repr(Head(items))
         \o (IF Len(items) > 1 THEN <<",", " ">> ELSE <<>>)
         \o ReprItems(Tail(items))
ReprPairs(pairs) ==
    IF pairs = <<>> THEN <<>>
    ELSE Quoted(Head(pairs).key) \o <<":", " ">> \o Repr(Head(pairs).val)
         \o (IF Len(pairs) > 1 THEN <<",", " ">> ELSE <<>>)
         \o ReprPairs(Tail(pairs))
Repr(value) ==
    CASE value.kind = "none" -> <<"N", "o", "n", "e">>
      [] value.kind = "str" -> Quoted(value.s)
      [] value.kind = "num" -> Digits(value.n)
      [] value.kind = "list" -> <<"[">> \o ReprItems(value.items) \o <<"]">>
      [] value.kind = "dict" -> <<"{">> \o ReprPairs(value.pairs) \o <<"}">>

\* str(value): a string is itself, anything else its repr.
Str(value) == IF value.kind = "str" THEN value.s ELSE Repr(value)

\* The number of blanks a string starts with.
RECURSIVE LeadingBlanks(_)
LeadingBlanks(chars) ==
    IF chars = <<>> \/ Head(chars) # " " THEN 0
    ELSE 1 + LeadingBlanks(Tail(chars))

\* Variant of Strip that takes one blank off each end.
Strip_One(chars) ==
    LET a == IF LeadingBlanks(chars) > 0 THEN 1 ELSE 0
        b == IF LeadingBlanks(Reverse(chars)) > 0 THEN 1 ELSE 0
    IN IF a = Len(chars) THEN <<>> ELSE SubSeq(chars, a + 1, Len(chars) - b)

\* str.strip()
Strip(chars) ==
    LET a == LeadingBlanks(chars)
        b == LeadingBlanks(Reverse(chars))
    IN IF a = Len(chars) THEN <<>> ELSE SubSeq(chars, a + 1, Len(chars) - b)

Unknown == <<"U", "n", "k", "n", "o", "w", "n">>

\* while isinstance(value, list): value = value[0] if value else None
RECURSIVE Unlist(_)
Unlist(value) ==
    IF value.kind # "list" THEN value
    ELSE IF value.items = <<>> THEN PyNone
    ELSE Unlist(Head(value.items))

\* The keys of the or-chain, in its order.
SanitizeKeys == <<<<"a", "u", "t", "h", "o", "r", "i", "t", "y", "-", "f", "n", "f">>,
                  <<"a", "u", "t", "h", "o", "r", "i", "t", "y", "-", "l", "n", "f">>,
                  <<"n", "a", "m", "e">>,
                  <<"#", "t", "e", "x", "t">>,
                  <<"v", "a", "l", "u", "e">>>>

\* value.get(k1) or value.get(k2) or ... or str(value)
RECURSIVE OrChain(_, _)
OrChain(value, keys) ==
    IF keys = <<>> THEN PyStr(Str(value))
    ELSE IF Truthy(Get(value, Head(keys))) THEN Get(value, Head(keys))
    ELSE OrChain(value, Tail(keys))

_sanitize_metadata(value) ==
    LET first == Unlist(value)
        picked == IF first.kind = "dict" THEN OrChain(first, SanitizeKeys) ELSE first
    IN IF picked.kind = "none" THEN Unknown
       ELSE Strip(Str(picked))

\* ---- --- SPEAKER ID ---: the speaker of a speech ----

LowerCase == <<"a", "b", "c", "d", "e", "f", "g", "h", "i", "j", "k", "l", "m", "n", "o", "p", "q", "r", "s", "t", "u", "v", "w", "x", "y", "z">>
UpperCase == <<"A", "B", "C", "D", "E", "F", "G", "H", "I", "J", "K", "L", "M", "N", "O", "P", "Q", "R", "S", "T", "U", "V", "W", "X", "Y", "Z">>
LetterSet == {LowerCase[i] : i \in 1..Len(LowerCase)} \cup {UpperCase[i] : i \in 1..Len(UpperCase)}
LetterIdx(c) == CHOOSE i \in 1..Len(LowerCase) : LowerCase[i] = c \/ UpperCase[i] = c

\* str.title(): a letter after a letter is lower-cased, any other letter
\* upper-cased.
TitleCase(chars) ==
    [i \in 1..Len(chars) |->
        IF chars[i] \notin LetterSet THEN chars[i]
        ELSE IF i = 1 \/ chars[i - 1] \notin LetterSet THEN UpperCase[LetterIdx(chars[i])]
        ELSE LowerCase[LetterIdx(chars[i])]]

\* The number of characters of the set a string starts with.
RECURSIVE LeadingIn(_, _)
LeadingIn(chars, allowed) ==
    IF chars = <<>> \/ Head(chars) \notin allowed THEN 0
    ELSE 1 + LeadingIn(Tail(chars), allowed)

\* The number of characters a string has before the first one of the set.
RECURSIVE LeadingOut(_, _)
LeadingOut(chars, stops) ==
    IF chars = <<>> \/ Head(chars) \in stops THEN 0
    ELSE 1 + LeadingOut(Tail(chars), stops)

\* str.split(): the words between the blanks.
RECURSIVE SplitWords(_)
SplitWords(chars) ==
    LET rest == SubSeq(chars, LeadingBlanks(chars) + 1, Len(chars))
        n == LeadingOut(rest, {" "})
    IN IF rest = <<>> THEN <<>>
       ELSE <<SubSeq(rest, 1, n)>> \o SplitWords(SubSeq(rest, n + 1, Len(rest)))

\* str.split(sep): the parts between the separators, empty ones too.
RECURSIVE Split(_, _)
Split(chars, sep) ==
    LET n == LeadingOut(chars, {sep})
    IN IF n = Len(chars) THEN <<chars>>
       ELSE <<SubSeq(chars, 1, n)>> \o Split(SubSeq(chars, n + 2, Len(chars)), sep)

\* str.isdigit() holds for the decimal digits and for digits such as the
\* superscript two, which int() does not take.
SuperTwo == "^2"
IsDigit(c) == c = SuperTwo \/ \E i \in 1..Len(DigitChars) : DigitChars[i] = c
\* ''.join(filter(str.isdigit, bid))
FilterDigits(chars) == SelectSeq(chars, IsDigit)

\* int(digits), for decimal digits
RECURSIVE ToInt(_)
ToInt(digits) ==
    IF digits = <<>> THEN 0
    ELSE ToInt(SubSeq(digits, 1, Len(digits) - 1)) * 10
         + (CHOOSE i \in 1..Len(DigitChars) : DigitChars[i] = digits[Len(digits)]) - 1

\* m.get(key, default): the default stands in for a missing key only.
GetDefault(m, key, default) ==
    IF \E i \in 1..Len(m.pairs) : m.pairs[i].key = key THEN Get(m, key) ELSE default

KeyName == <<"n", "a", "m", "e">>
KeyParty == <<"p", "a", "r", "t", "y">>
KeyState == <<"s", "t", "a", "t", "e">>
KeyBioguideId == <<"b", "i", "o", "g", "u", "i", "d", "e", "I", "d">>
UnknownSpeaker == <<"U", "n", "k", "n", "o", "w", "n", " ", "S", "p", "e", "a", "k", "e", "r">>

\* Variant of Sentinel that starts from a mapped identity.
Sentinel_Mapped ==
    [exc |-> "none", speaker_name |-> UnknownSpeaker, party |-> Unknown, state |-> Unknown,
     lastname |-> Unknown, firstname |-> Unknown, bio_id_num |-> -1, is_mapped |-> 1]

\* The identity the resolver starts from (lines 188-194); exc names the
\* exception that left the resolver, "none" when it came to its end.
Sentinel ==
    [exc |-> "none", speaker_name |-> UnknownSpeaker, party |-> Unknown, state |-> Unknown,
     lastname |-> Unknown, firstname |-> Unknown, bio_id_num |-> -1, is_mapped |-> 0]
Failed(exc) == [Sentinel EXCEPT !.exc = exc]

\* Variant of SplitName that renders a comma-delimited name as it came.
SplitName_AsGiven(speaker_name) ==
    IF "," \in {speaker_name[i] : i \in 1..Len(speaker_name)}
    THEN LET parts == Split(speaker_name, ",")
             last == Strip(parts[1])
             first == IF Len(parts) > 1 THEN Strip(parts[2]) ELSE <<>>
         IN [speaker_name |-> Strip(last \o <<" ">> \o first), lastname |-> last, firstname |-> first]
    ELSE LET parts == SplitWords(speaker_name)
         IN IF Len(parts) > 1
            THEN [speaker_name |-> speaker_name, lastname |-> parts[Len(parts)], firstname |-> parts[1]]
            ELSE [speaker_name |-> speaker_name, lastname |-> Unknown, firstname |-> Unknown]

\* Name parsing: "Last, First" is rendered "First Last"; a name without a
\* comma gives its first and its last word, when it has two.
SplitName(speaker_name) ==
    IF "," \in {speaker_name[i] : i \in 1..Len(speaker_name)}
    THEN LET parts == Split(speaker_name, ",")
             last == Strip(parts[1])
             first == IF Len(parts) > 1 THEN Strip(parts[2]) ELSE <<>>
         IN [speaker_name |-> Strip(first \o <<" ">> \o last), lastname |-> last, firstname |-> first]
    ELSE LET parts == SplitWords(speaker_name)
         IN IF Len(parts) > 1
            THEN [speaker_name |-> speaker_name, lastname |-> parts[Len(parts)], firstname |-> parts[1]]
            ELSE [speaker_name |-> speaker_name, lastname |-> Unknown, firstname |-> Unknown]

\* if members: the first member (lines 197-217).  m.get raises on a member
\* that is no mapping, int() on a digit that is no decimal digit.
PrimaryPath(m) ==
    IF m.kind # "dict" THEN Failed("AttributeError")
    ELSE LET name == _sanitize_metadata(GetDefault(m, KeyName, PyStr(UnknownSpeaker)))
             bid == _sanitize_metadata(GetDefault(m, KeyBioguideId, PyStr(<<>>)))
             digits == IF bid # <<>> /\ bid # Unknown THEN FilterDigits(bid) ELSE <<>>
             parsed == SplitName(name)
         IN IF SuperTwo \in {digits[i] : i \in 1..Len(digits)} THEN Failed("ValueError")
            ELSE [exc |-> "none",
                  speaker_name |-> parsed.speaker_name,
                  party |-> _sanitize_metadata(GetDefault(m, KeyParty, PyStr(Unknown))),
                  state |-> _sanitize_metadata(GetDefault(m, KeyState, PyStr(Unknown))),
                  lastname |-> parsed.lastname,
                  firstname |-> parsed.firstname,
                  bio_id_num |-> IF digits # <<>> THEN ToInt(digits) ELSE -1,
                  is_mapped |-> 1]

\* The alternatives of the first group of the fallback pattern, in order.
CourtesyTitles == <<<<"M", "r", ".">>, <<"M", "s", ".">>, <<"M", "r", "s", ".">>, <<"T", "h", "e">>>>
IsPrefix(p, chars) == Len(p) <= Len(chars) /\ SubSeq(chars, 1, Len(p)) = p
WordOf == <<"o", "f">>

\* re.sub(r"\s+of\s+[A-Za-z]+$", "", name_raw), for a stripped name of
\* letters and blanks: a last word after the word "of" goes with it, when
\* a word stands before them.
NameClean(name_raw) ==
    LET words == SplitWords(name_raw)
        cut(chars) == LET r == Reverse(chars)
                          w == LeadingOut(r, {" "})
                          b == LeadingBlanks(SubSeq(r, w + 1, Len(r)))
                      IN SubSeq(chars, 1, Len(chars) - w - b)
    IN IF Len(words) >= 3 /\ words[Len(words) - 1] = WordOf
       THEN cut(cut(name_raw))
       ELSE name_raw

\* clean_text[:50]
HeadLen == 50

\* Variant of FallbackPath in which the pattern matches nothing.
FallbackPath_NoMatch(head) == Sentinel

\* else: the courtesy title the text starts with (lines 220-226).  The
\* pattern is ^(Mr\.|Ms\.|Mrs\.|The)\s+([A-Za-z\s]+)(\.|:) ; split()[-1]
\* raises on a name without a word.
FallbackPath(head) ==
    IF ~\E i \in 1..Len(CourtesyTitles) : IsPrefix(CourtesyTitles[i], head) THEN Sentinel
    ELSE LET title == CourtesyTitles[CHOOSE i \in 1..Len(CourtesyTitles) : IsPrefix(CourtesyTitles[i], head)]
             rest == SubSeq(head, Len(title) + 1, Len(head))
             run == LeadingIn(rest, LetterSet \cup {" "})
             matched == /\ LeadingBlanks(rest) >= 1
                        /\ run >= 2
                        /\ run < Len(rest)
                        /\ rest[run + 1] \in {".", ":"}
             name_clean == NameClean(Strip(SubSeq(rest, 1, run)))
             words == SplitWords(name_clean)
         IN IF ~matched THEN Sentinel
            ELSE IF words = <<>> THEN Failed("IndexError")
            ELSE [Sentinel EXCEPT !.speaker_name = TitleCase(title \o <<" ">> \o name_clean),
                                  !.lastname = TitleCase(words[Len(words)])]

\* --- SPEAKER ID --- as a whole.  members[0] raises on a mapping and on a
\* number; of a string it is the first character.
ResolveSpeaker(members, clean_text) ==
    IF ~Truthy(members) THEN FallbackPath(SubSeq(clean_text, 1, IF Len(clean_text) < HeadLen THEN Len(clean_text) ELSE HeadLen))
    ELSE CASE members.kind = "list" -> PrimaryPath(members.items[1])
           [] members.kind = "str" -> PrimaryPath(PyStr(<<members.s[1]>>))
           [] members.kind = "dict" -> Failed("KeyError")
           [] members.kind = "num" -> Failed("TypeError")

\* The granule-detail document (the body of the metadata response).
\*   kind      "malformed": not JSON; "array": JSON, but no object; "object"
\*   download  "absent" | "null" | "nolink" (no txtLink in it) | "link"
\*   members   "absent" | "null" | "empty" | "dicts" (a list of objects) |
\*             "strings" (a list of strings) | "object" (an object, no list)
\*   congress  "absent" | "112"
SummaryBodies ==
    [kind : {"malformed", "array"}, download : {"absent"}, members : {"absent"}, congress : {"absent"}]
    \cup [kind : {"object"}, download : {"absent", "null", "nolink", "link"},
          members : {"absent", "null", "empty", "dicts", "strings", "object"},
          congress : {"absent", "112"}]

NoJson == [kind |-> "none", download |-> "absent", members |-> "absent", congress |-> "absent"]

NoData == [speech_id |-> <<>>]
NoOutcome == [status |-> "NONE", gran_id |-> <<>>, reason |-> "", data |-> NoData]
Skip(reason) == [status |-> "SKIP", gran_id |-> <<>>, reason |-> reason, data |-> NoData]
\* ("ERROR", f"{gran_id} - {reason}")
Error(gran_id, reason) == [status |-> "ERROR", gran_id |-> gran_id, reason |-> reason, data |-> NoData]
Success(data) == [status |-> "SUCCESS", gran_id |-> <<>>, reason |-> "", data |-> data]
\* The call did not return: the exception leaves _fetch_single_speech.
Raise(exc) == [status |-> "RAISED", gran_id |-> <<>>, reason |-> exc, data |-> NoData]

\* The same filter with the front/back-matter test left out.
FilterStep_NoMatterTest(gran_id) ==
    IF ~(\E x \in {PgH, PgS, PGH, PGS} : IsSubstring(x, gran_id))
    THEN Skip("Not Floor Speech")
    ELSE NoOutcome

\* --- FILTERS ---: NoOutcome means the granule goes on to the metadata.
FilterStep(gran_id) ==
    IF ~(\E x \in {PgH, PgS, PGH, PGS} : IsSubstring(x, gran_id))
    THEN Skip("Not Floor Speech")
    ELSE IF IsSubstring(FrontMatter, gran_id) \/ IsSubstring(BackMatter, gran_id)
    THEN Skip("Front/BackMatter")
    ELSE NoOutcome

\* --- METADATA --- and the text link: summary_resp is what safe_get gave,
\* body the document it carries.  json() raises on a body that is not JSON;
\* .get raises on a document that is no object and on "download": null.
MetadataStep(gran_id, summary_resp, body) ==
    IF ~IsResp(summary_resp) THEN Error(gran_id, "Metadata Fail")
    ELSE IF body.kind = "malformed" THEN Raise("JSONDecodeError")
    ELSE IF body.kind = "array" THEN Raise("AttributeError")
    ELSE IF body.download = "null" THEN Raise("AttributeError")
    ELSE IF body.download \in {"absent", "nolink"} THEN Error(gran_id, "No Text Link")
    ELSE NoOutcome

\* --- TEXT ---
TextStep(gran_id, t_resp) ==
    IF ~IsResp(t_resp) THEN Error(gran_id, "Text Download Fail") ELSE NoOutcome

\* The members the granule detail holds, by the kind of the document:
\* summary_json.get('members', []).
JaneDoe == PyDict(<<[key |-> KeyName, val |-> PyStr(<<"D", "o", "e", ",", " ", "J", "a", "n", "e">>)], [key |-> KeyParty, val |-> PyStr(<<"D">>)],
                    [key |-> KeyState, val |-> PyStr(<<"C", "A">>)], [key |-> KeyBioguideId, val |-> PyStr(<<"D", "0", "0", "0", "1", "2", "3">>)]>>)
MembersOf(summary_json) ==
    CASE summary_json.members = "absent" -> PyList(<<>>)
      [] summary_json.members = "null" -> PyNone
      [] summary_json.members = "empty" -> PyList(<<>>)
      [] summary_json.members = "dicts" -> PyList(<<JaneDoe>>)
      [] summary_json.members = "strings" -> PyList(<<PyStr(<<"S", "m", "i", "t", "h">>)>>)
      [] summary_json.members = "object" -> JaneDoe

\* The characters a normalized text starts with, by its first fragment: a
\* speaker's courtesy title and name, a title whose name was boilerplate
\* (as "Mr. [Page H23] . I yield ..." is left), or ordinary words.
YieldBackText == <<"M", "r", ".", " ", "S", "M", "I", "T", "H", " ", "o", "f", " ", "T", "e", "x", "a", "s", ".", " ", "I", " ", "y", "i", "e", "l", "d", " ", "b", "a", "c", "k", " ", "t", "h", "e", " ", "b", "a", "l", "a", "n", "c", "e", " ", "o", "f", " ", "m", "y", " ", "t", "i", "m", "e", ".">>
BlankTitleText == <<"M", "r", ".", " ", " ", ".", " ", "I", " ", "y", "i", "e", "l", "d", " ", "b", "a", "c", "k", " ", "t", "h", "e", " ", "b", "a", "l", "a", "n", "c", "e", " ", "o", "f", " ", "m", "y", " ", "t", "i", "m", "e", ",", " ", "a", "n", "d", " ", "I", " ", "t", "h", "a", "n", "k", " ", "t", "h", "e", " ", "g", "e", "n", "t", "l", "e", "m", "a", "n", ".">>
OrdinaryText == <<"I", " ", "r", "i", "s", "e", " ", "t", "o", "d", "a", "y", " ", "i", "n", " ", "s", "u", "p", "p", "o", "r", "t", " ", "o", "f", " ", "t", "h", "e", " ", "b", "i", "l", "l", " ", "b", "e", "f", "o", "r", "e", " ", "t", "h", "e", " ", "H", "o", "u", "s", "e", ".">>
TextHead(clean_text) ==
    IF clean_text = <<>> THEN <<>>
    ELSE CASE clean_text[1].title = "name" -> YieldBackText
           [] clean_text[1].title = "blank" -> BlankTitleText
           [] OTHER -> OrdinaryText

\* --- DATA PREP ---: the tuple of the eleven columns.
DataTuple(gran_id, clean_text, date_int, id, final_congress) ==
    [speech_id |-> gran_id, speech |-> clean_text, date |-> date_int,
     speakerid |-> id.bio_id_num, speaker |-> id.speaker_name, is_mapped |-> id.is_mapped,
     party |-> id.party, state_x |-> id.state, lastname |-> id.lastname,
     firstname |-> id.firstname, congress_session |-> final_congress]

\* --- CLEANING ---, --- SPEAKER ID --- and --- DATA PREP ---.
ResolveStep(gran_id, date_str, package_congress, summary_json, raw_text) ==
    LET clean_text == clean_speech_text(raw_text)
        id == ResolveSpeaker(MembersOf(summary_json), TextHead(clean_text))
        final_congress == IF package_congress # "Unknown" THEN package_congress
                          ELSE IF summary_json.congress = "absent" THEN "0"
                          ELSE summary_json.congress
    IN IF TextLen(clean_text) < GhostLen THEN Skip("Empty/Header Only")
       ELSE IF id.exc # "none" THEN Raise(id.exc)
       ELSE Success(DataTuple(gran_id, clean_text, date_str, id, final_congress))

\* What the remote side gives one worker: the results of its two safe_get
\* calls, the granule-detail document and the text.
\* _fetch_single_speech as one function of it.
_fetch_single_speech(gran_id, date_str, package_congress, api) ==
    LET f == FilterStep(gran_id)
        m == MetadataStep(gran_id, api.summary_resp, api.body)
        t == TextStep(gran_id, api.t_resp)
    IN IF f # NoOutcome THEN f
       ELSE IF m # NoOutcome THEN m
       ELSE IF t # NoOutcome THEN t
       ELSE ResolveStep(gran_id, date_str, package_congress, api.body, api.raw_text)

\* Every value a call of safe_get can return, up to the attempt number.
SafeGetResults == {safe_get(a) : a \in AnswerSeqs}

WorkerTexts == {<<Hdr, Words(40)>>, <<Hdr>>, <<Hdr, Phrase(120)>>, <<Words(600)>>,
                <<Hdr, BlankTitle(80)>>, <<Hdr, Phrase(Len(YieldBackText))>>}

WorkerStart ==
    /\ w_pc = "idle"
    /\ \E g \in WorkerGranIds : w_gran' = g
    /\ w_pc' = "filter"
    /\ UNCHANGED <<w_calls, w_resps, w_json, w_raw, w_out>>
    /\ UNCHANGED <<fetchVars, ingestVars, classifyVars, pureVars>>

WorkerFilter ==
    /\ w_pc = "filter"
    /\ w_out' = FilterStep(w_gran)
    /\ w_pc' = IF FilterStep(w_gran) = NoOutcome THEN "metadata" ELSE "done"
    /\ UNCHANGED <<w_gran, w_calls, w_resps, w_json, w_raw>>
    /\ UNCHANGED <<fetchVars, ingestVars, classifyVars, pureVars>>

WorkerMetadata ==
    /\ w_pc = "metadata"
    /\ \E summary_resp \in SafeGetResults, body \in SummaryBodies :
         LET o == MetadataStep(w_gran, summary_resp, body)
         IN /\ w_out' = o
            /\ w_json' = IF IsResp(summary_resp) /\ body.kind # "malformed" THEN body ELSE w_json
            /\ w_pc' = IF o = NoOutcome THEN "text" ELSE "done"
            /\ w_resps' = Append(w_resps, summary_resp)
    /\ w_calls' = Append(w_calls, "granuleLink")
    /\ UNCHANGED <<w_gran, w_raw>>
    /\ UNCHANGED <<fetchVars, ingestVars, classifyVars, pureVars>>

WorkerText ==
    /\ w_pc = "text"
    /\ \E t_resp \in SafeGetResults, raw_text \in WorkerTexts :
         LET o == TextStep(w_gran, t_resp)
         IN /\ w_out' = o
            /\ w_raw' = IF o = NoOutcome THEN raw_text ELSE w_raw
            /\ w_pc' = IF o = NoOutcome THEN "resolve" ELSE "done"
            /\ w_resps' = Append(w_resps, t_resp)
    /\ w_calls' = Append(w_calls, "txtLink")
    /\ UNCHANGED <<w_gran, w_json>>
    /\ UNCHANGED <<fetchVars, ingestVars, classifyVars, pureVars>>

WorkerResolve ==
    /\ w_pc = "resolve"
    /\ \E date_str \in {0, 20110105}, package_congress \in {"Unknown", "112"} :
         w_out' = ResolveStep(w_gran, date_str, package_congress, w_json, w_raw)
    /\ w_pc' = "done"
    /\ UNCHANGED <<w_gran, w_calls, w_resps, w_json, w_raw>>
    /\ UNCHANGED <<fetchVars, ingestVars, classifyVars, pureVars>>

NextWorker == WorkerStart \/ WorkerFilter \/ WorkerMetadata \/ WorkerText \/ WorkerResolve

-----------------------------------------------------------------------------
(* The remote document API, as far as the ingestion reads it               *)

\* pageSize of both listings (the code asks for 100; the model's packages
\* and granules are few, and so is the page).
PageSize == 2

\* Package ids "CREC-YYYY-MM-DD" by their date; the order of the ids as
\* strings is the order of the dates.
P1 == [packageId |-> 20110105, congress |-> "112"]
P2 == [packageId |-> 20110106, congress |-> "absent"]
Packages == {P1, P2}
PkgIds == {p.packageId : p \in Packages}

\* The granules of each package, in the order the API lists them.
PackageGranules(pkg_id) ==
    IF pkg_id = P1.packageId THEN <<gH1, gE3, gS2>> ELSE <<gHFront>>

SeqRange(q) == {q[k] : k \in 1..Len(q)}
GranulesOf(pkg_id) == SeqRange(PackageGranules(pkg_id))
GranIds == UNION {GranulesOf(p) : p \in PkgIds}

Min(a, b) == IF a <= b THEN a ELSE b

\* One page of a listing: at most n items from the given offset on.
Page(items, from, n) == SubSeq(items, from + 1, Min(from + n, Len(items)))

\* The package listing of the year: the API may give the packages in any order.
PackageListings == {q \in [1..Cardinality(Packages) -> Packages] : \A i, j \in 1..Len(q) : i # j => q[i] # q[j]}

\* A page of the granule listing holds pageSize granules or, when the API
\* says so, fewer.
PageLens == {n \in {PageSize, PageSize - 1} : n >= 1}

\* The text document of a granule: the same in every run.
GranuleText(g) == IF g = gH1 THEN <<Hdr, Phrase(120)>> ELSE <<Words(600)>>

\* What the remote side gives the worker of granule g: the fetches may
\* fail and the metadata may be no JSON.
\* What safe_get gives the ingestion: its callers test the result for truth
\* only, so the response of the first attempt stands for those of the later
\* attempts.
IngestResults == {r \in SafeGetResults : ~IsResp(r) \/ r.attempt = 1}

IngestApis(g) ==
    { [summary_resp |-> r, body |-> b, t_resp |-> Response(1, 200), raw_text |-> GranuleText(g)] :
        r \in IngestResults,
        b \in {[kind |-> "object", download |-> "link", members |-> "dicts", congress |-> "112"],
               [kind |-> "malformed", download |-> "absent", members |-> "absent", congress |-> "absent"]} }

-----------------------------------------------------------------------------
(* The canonical store                                                     *)

\* SQL NULL in the column is_procedure: a value that is neither 0 nor 1.
NULL == -1

\* The row an INSERT of the eleven columns makes: is_procedure is not among
\* them and takes the column's default.
Row(d) == [speech_id |-> d.speech_id, speech |-> d.speech, date |-> d.date,
           speakerid |-> d.speakerid, speaker |-> d.speaker, is_mapped |-> d.is_mapped,
           party |-> d.party, state_x |-> d.state_x, lastname |-> d.lastname,
           firstname |-> d.firstname, congress_session |-> d.congress_session,
           is_procedure |-> NULL]

\* No key on speech_id: every insert adds a row.
Upsert_NoKey(table, d) == table \cup {[Row(d) EXCEPT !.date = d.date + Cardinality(table)]}

\* INSERT OR REPLACE on the primary key speech_id: a row with the same id
\* is deleted, the new row inserted.
Upsert(table, d) == {r \in table : r.speech_id # d.speech_id} \cup {Row(d)}

\* The table has a row with the eleven columns of the tuple d.
HoldsData(table, d) == \E q \in table : [q EXCEPT !.is_procedure = NULL] = Row(d)

\* The ledger write lost (no commit).
MarkLedger_Lost(ledger, pkg_id) == ledger

\* INSERT OR IGNORE INTO processed_packages (package_id), and the commit.
MarkLedger(ledger, pkg_id) == ledger \cup {pkg_id}

\* The batch of a page left unwritten until after the ledger write.
ExecuteMany_Deferred(table, tuples) == table

\* cursor.executemany: one upsert per tuple, in order.
RECURSIVE ExecuteMany(_, _)
ExecuteMany(table, tuples) ==
    IF tuples = <<>> THEN table
    ELSE ExecuteMany(Upsert(table, Head(tuples)), Tail(tuples))

-----------------------------------------------------------------------------
(* Package ingestion orchestrator: ingest_range and process_package        *)

\* all_packages.sort(key=lambda x: x['packageId'])
RECURSIVE InsertSorted(_, _)
InsertSorted(x, q) ==
    IF q = <<>> THEN <<x>>
    ELSE IF x.packageId < Head(q).packageId THEN <<x>> \o q
    ELSE <<Head(q)>> \o InsertSorted(x, Tail(q))

RECURSIVE SortPackages(_)
SortPackages(q) ==
    IF q = <<>> THEN <<>> ELSE InsertSorted(q[Len(q)], SortPackages(SubSeq(q, 1, Len(q) - 1)))

\* The resume test never true: every listed package is processed.
IsDone_Never(pkg_id, ids) == FALSE

\* if pkg_id in processed_ids: continue
IsDone(pkg_id, ids) == pkg_id \in ids

\* date_str of the package id (int(date_str) in the worker)
DateStr(pkg_id) == pkg_id

\* package_congress = self._sanitize_metadata(pkg.get('congress', 'Unknown'))
PackageCongress(pkg) == IF pkg.congress = "absent" THEN "Unknown" ELSE pkg.congress

\* The package process_package is running for.
Cur == all_packages[pkg_i]

InPackage == pc \in {"page", "collect", "mark"}

\* No ingestion process runs: none was started yet or the last one ended
\* ("idle"), or the last one ended with an exception that left ingest_range
\* ("crashed").
IngestEnded == {"idle", "crashed"}

\* ingest_range: connect, read the ledger into processed_ids.
IngestStart ==
    /\ pc \in IngestEnded
    /\ processed_ids' = processed_packages
    /\ all_packages' = <<>>
    /\ list_offset' = 0
    /\ pc' = "listing"
    /\ start_ledger' = processed_packages
    /\ called' = {}
    /\ fetched' = {}
    /\ rewritten' = {}
    /\ UNCHANGED <<storeVars, pkg_i, offset, granules, pending, results_to_insert,
                   attempted, errored, produced, interrupted>>
    /\ UNCHANGED <<fetchVars, workerVars, classifyVars, pureVars>>

\* One iteration of the listing loop of ingest_range; on leaving the loop
\* the packages are sorted and the for loop starts.
ListPackages ==
    /\ pc = "listing"
    /\ \E resp \in IngestResults, listing \in PackageListings :
         LET packages == Page(listing, list_offset, PageSize)
             more == IsResp(resp) /\ packages # <<>>
             gathered == IF more THEN all_packages \o packages ELSE all_packages
         IN IF more /\ Len(packages) >= PageSize
            THEN /\ all_packages' = gathered
                 /\ list_offset' = list_offset + PageSize
                 /\ pc' = "listing"
                 /\ pkg_i' = pkg_i
            ELSE /\ all_packages' = SortPackages(gathered)
                 /\ list_offset' = list_offset
                 /\ pc' = "packages"
                 /\ pkg_i' = 1
    /\ UNCHANGED <<storeVars, processed_ids, offset, granules, pending,
                   results_to_insert, histVars>>
    /\ UNCHANGED <<fetchVars, workerVars, classifyVars, pureVars>>

\* for pkg in all_packages: a package of the ledger is passed over.
SkipPackage ==
    /\ pc = "packages"
    /\ pkg_i <= Len(all_packages)
    /\ IsDone(Cur.packageId, processed_ids)
    /\ pkg_i' = pkg_i + 1
    /\ UNCHANGED <<storeVars, pc, processed_ids, all_packages, list_offset,
                   offset, granules, pending, results_to_insert, histVars>>
    /\ UNCHANGED <<fetchVars, workerVars, classifyVars, pureVars>>

\* self.process_package(pkg, conn): entry, up to the while loop.
StartPackage ==
    /\ pc = "packages"
    /\ pkg_i <= Len(all_packages)
    /\ ~IsDone(Cur.packageId, processed_ids)
    /\ offset' = 0
    /\ pc' = "page"
    /\ called' = called \cup {Cur.packageId}
    /\ attempted' = attempted \ GranulesOf(Cur.packageId)
    /\ errored' = errored \ GranulesOf(Cur.packageId)
    /\ produced' = {}
    /\ UNCHANGED <<storeVars, processed_ids, all_packages, list_offset, pkg_i,
                   granules, pending, results_to_insert, fetched, start_ledger, rewritten,
                   interrupted>>
    /\ UNCHANGED <<fetchVars, workerVars, classifyVars, pureVars>>

\* The for loop is used up: conn.close(), and the process ends.
IngestFinish ==
    /\ pc = "packages"
    /\ pkg_i > Len(all_packages)
    /\ pc' = "idle"
    /\ processed_ids' = {}
    /\ all_packages' = <<>>
    /\ list_offset' = 0
    /\ pkg_i' = 1
    /\ offset' = 0
    /\ granules' = <<>>
    /\ pending' = {}
    /\ results_to_insert' = <<>>
    /\ called' = {}
    /\ fetched' = {}
    /\ start_ledger' = {}
    /\ rewritten' = {}
    /\ interrupted' = [p \in PkgIds |-> IF p \in processed_packages THEN -1 ELSE interrupted[p]]
    /\ UNCHANGED <<storeVars, attempted, errored, produced>>
    /\ UNCHANGED <<fetchVars, workerVars, classifyVars, pureVars>>

\* Top of "while True": the granule listing of the page; a null answer and
\* an empty page leave the loop, else the page's granules are submitted.
FetchPage ==
    /\ pc = "page"
    /\ \E g_resp \in IngestResults, n \in PageLens :
         LET page == Page(PackageGranules(Cur.packageId), offset, n)
         IN IF ~IsResp(g_resp) \/ page = <<>>
            THEN /\ pc' = "mark"
                 /\ UNCHANGED <<granules, pending, results_to_insert>>
            ELSE /\ granules' = page
                 /\ pending' = SeqRange(page)
                 /\ results_to_insert' = <<>>
                 /\ pc' = "collect"
    /\ fetched' = fetched \cup {Cur.packageId}
    /\ UNCHANGED <<storeVars, processed_ids, all_packages, list_offset, pkg_i,
                   offset, attempted, errored, produced, called, start_ledger, rewritten, interrupted>>
    /\ UNCHANGED <<fetchVars, workerVars, classifyVars, pureVars>>

\* Nothing is written to failures.log.
LogFailure_Never(log, o) == log

\* fail_logger.error(f"{status}: {result}"): the entry names the granule
\* and the reason; the handler appends it to failures.log and flushes.
LogFailure(log, o) == log \cup {[gran_id |-> o.gran_id, reason |-> o.reason]}

\* The batch is written whether or not futures are still running.
PoolDone_Any(futures) == TRUE

\* The with block of the executor is left, and the as_completed loop with
\* it, when every future has completed.
PoolDone(futures) == futures = {}

\* One future completes: the worker ran _fetch_single_speech for g, and the
\* as_completed loop takes its result.  An exception of the worker is
\* logged to the run log by the except branch, not to failures.log.
WorkerDone(g) ==
    /\ pc = "collect"
    /\ g \in pending
    /\ \E api \in IngestApis(g) :
         LET o == _fetch_single_speech(g, DateStr(Cur.packageId), PackageCongress(Cur), api)
         IN /\ results_to_insert' = IF o.status = "SUCCESS"
                                    THEN Append(results_to_insert, o.data)
                                    ELSE results_to_insert
            /\ fail_log' = IF o.status = "ERROR" THEN LogFailure(fail_log, o) ELSE fail_log
            /\ errored' = IF o.status = "ERROR" THEN errored \cup {g} ELSE errored
            /\ produced' = IF o.status = "SUCCESS" THEN produced \cup {g} ELSE produced
    /\ pending' = pending \ {g}
    /\ attempted' = attempted \cup {g}
    /\ UNCHANGED <<speeches, processed_packages, pc, processed_ids, all_packages,
                   list_offset, pkg_i, offset, granules, called, fetched, start_ledger,
                   rewritten, interrupted>>
    /\ UNCHANGED <<fetchVars, workerVars, classifyVars, pureVars>>

\* After the pool: the batch is written and committed, then the pagination
\* test either leaves the loop or moves the offset by the page size.
SavePage ==
    /\ pc = "collect"
    /\ PoolDone(pending)
    /\ speeches' = ExecuteMany(speeches, results_to_insert)
    /\ IF offset + Len(granules) >= Len(PackageGranules(Cur.packageId))
       THEN pc' = "mark" /\ offset' = offset
       ELSE pc' = "page" /\ offset' = offset + PageSize
    /\ rewritten' = rewritten \cup {d.speech_id : d \in {x \in SeqRange(results_to_insert) :
                                                            HoldsData(speeches, x)}}
    /\ UNCHANGED <<processed_packages, fail_log, processed_ids, all_packages,
                   list_offset, pkg_i, granules, pending, results_to_insert,
                   attempted, errored, produced, called, fetched, start_ledger, interrupted>>
    /\ UNCHANGED <<fetchVars, workerVars, classifyVars, pureVars>>

\* After the loop: INSERT OR IGNORE INTO processed_packages, commit; back in
\* ingest_range, processed_ids.add(pkg_id).
MarkDone ==
    /\ pc = "mark"
    /\ processed_packages' = MarkLedger(processed_packages, Cur.packageId)
    /\ processed_ids' = processed_ids \cup {Cur.packageId}
    /\ pkg_i' = pkg_i + 1
    /\ pc' = "packages"
    /\ attempted' = {}
    /\ errored' = {}
    /\ produced' = {}
    /\ UNCHANGED <<speeches, fail_log, all_packages, list_offset, offset,
                   granules, pending, results_to_insert, called, fetched, start_ledger,
                   rewritten, interrupted>>
    /\ UNCHANGED <<fetchVars, workerVars, classifyVars, pureVars>>

\* The process ends before its time and its memory is gone; what was
\* committed stays.
ProcessEnds(end) ==
    /\ pc' = end
    /\ interrupted' = [p \in PkgIds |->
                        IF InPackage /\ p = Cur.packageId
                        THEN Cardinality(attempted \cap GranulesOf(p))
                        ELSE IF p \in processed_packages THEN -1 ELSE interrupted[p]]
    /\ attempted' = {}
    /\ errored' = {}
    /\ produced' = {}
    /\ processed_ids' = {}
    /\ all_packages' = <<>>
    /\ list_offset' = 0
    /\ pkg_i' = 1
    /\ offset' = 0
    /\ granules' = <<>>
    /\ pending' = {}
    /\ results_to_insert' = <<>>
    /\ called' = {}
    /\ fetched' = {}
    /\ start_ledger' = {}
    /\ rewritten' = {}
    /\ UNCHANGED storeVars
    /\ UNCHANGED <<fetchVars, workerVars, classifyVars, pureVars>>

\* The run is stopped from outside (KeyboardInterrupt, kill, power).
Interrupt ==
    /\ pc \notin IngestEnded
    /\ ProcessEnds("idle")

\* A listing is answered 200 with a body that is no JSON: resp.json() in
\* ingest_range (line 352) or g_resp.json() in process_package (line 277)
\* raises, and nothing catches it before it leaves ingest_range.
IngestCrash ==
    /\ pc \in {"listing", "page"}
    /\ ProcessEnds("crashed")

NextIngest ==
    \/ IngestStart
    \/ ListPackages
    \/ SkipPackage
    \/ StartPackage
    \/ IngestFinish
    \/ FetchPage
    \/ \E g \in GranIds : WorkerDone(g)
    \/ SavePage
    \/ MarkDone
    \/ Interrupt
    \/ IngestCrash

-----------------------------------------------------------------------------
(* Denoising classifier pipeline: filterProcedure.py                       *)

\* length(speech) < 500
PurgeMaxLen == 500
\* CONFIDENCE_THRESHOLD = 0.70, in hundredths
CONFIDENCE_THRESHOLD == 70
\* LIMIT {CHUNK_SIZE} (50000 in the code; the model's table is small)
CHUNK_SIZE == 1

\* The text holds one of PROCEDURAL_KEYWORDS as a substring, case ignored.
HoldsPhrase(speech) == \E k \in 1..Len(speech) : speech[k].kw = "phrase"

\* str.to_lowercase().str.contains(pattern): pattern is the phrases joined
\* by "|" and read as a regular expression, so the period of "mr. speaker"
\* stands for any character.
ContainsKeyword(speech) == \E k \in 1..Len(speech) : speech[k].kw \in {"phrase", "near"}

\* What the zero-shot classifier gives for one text: the top label and its
\* score in hundredths.
Labels == {"administrative procedure", "political debate"}
Scores == {70, 71}
ClassifierResults == [top_label : Labels, score : Scores]

\* The threshold test with >= in place of >.
IsProc_AtLeast(res) ==
    IF res.top_label = "administrative procedure" /\ res.score >= CONFIDENCE_THRESHOLD
    THEN 1 ELSE 0

\* is_proc of one result
IsProc(res) ==
    IF res.top_label = "administrative procedure" /\ res.score > CONFIDENCE_THRESHOLD
    THEN 1 ELSE 0

\* An update that changes no row.
UpdateIsProcedure_Nothing(table, updates) == table

\* The write as INSERT OR REPLACE of the two columns (speech_id,
\* is_procedure): the other columns of the row are lost.
UpdateIsProcedure_Replace(table, updates) ==
    {IF \E u \in updates : u.speech_id = r.speech_id
     THEN [r EXCEPT !.is_procedure = (CHOOSE u \in updates : u.speech_id = r.speech_id).is_proc,
                    !.speech = <<>>]
     ELSE r : r \in table}

\* UPDATE speeches SET is_procedure = ? WHERE speech_id = ?, executed for
\* every (value, id) of the list: updates is the set of these pairs.
UpdateIsProcedure(table, updates) ==
    {IF \E u \in updates : u.speech_id = r.speech_id
     THEN [r EXCEPT !.is_procedure = (CHOOSE u \in updates : u.speech_id = r.speech_id).is_proc]
     ELSE r : r \in table}

\* The exit with a part of the updates committed.
AbortedWrite_Partial(table, updates) ==
    IF updates = {} THEN table
    ELSE UpdateIsProcedure(table, {CHOOSE u \in updates : TRUE})

\* The process exits before conn.commit(): what executemany may have
\* written is rolled back with the connection.
AbortedWrite(table, updates) == table

\* WHERE is_procedure IS NULL, over every row.
Unclassified_All(table) == table

\* WHERE is_procedure IS NULL
Unclassified(table) == {r \in table : r.is_procedure = NULL}

\* The states in which no job runs.
ClassifyEnded == {"idle", "stopped", "failed"}

\* run_keyword_purge_optimized, the read and the scan: the candidates are
\* the unclassified short rows; with matches the update is due, without
\* (or without candidates) Stage A is over.
StageAScan ==
    /\ cl_pc \in ClassifyEnded
    /\ LET df == {r \in Unclassified(speeches) : TextLen(r.speech) < PurgeMaxLen}
           matches == {r.speech_id : r \in {c \in df : ContainsKeyword(c.speech)}}
       IN /\ cl_matches' = matches
          /\ cl_pc' = IF matches # {} THEN "updateA" ELSE "fetchB"
    /\ cl_prior' = (speeches # Unclassified(speeches))
    /\ UNCHANGED <<cl_chunk, cl_results, cl_updates>>
    /\ UNCHANGED <<fetchVars, workerVars, ingestVars, pureVars>>

\* run_keyword_purge_optimized, the executemany and the commit.
StageAUpdate ==
    /\ cl_pc = "updateA"
    /\ speeches' = UpdateIsProcedure(speeches, {[is_proc |-> 1, speech_id |-> x] : x \in cl_matches})
    /\ cl_matches' = {}
    /\ cl_pc' = "fetchB"
    /\ UNCHANGED <<cl_chunk, cl_results, cl_updates, cl_prior>>
    /\ UNCHANGED <<processed_packages, fail_log, runVars, histVars>>
    /\ UNCHANGED <<fetchVars, workerVars, pureVars>>

\* The connection closed with the first of the updates committed.
PurgeAborted_Committed(table, update_data) ==
    IF update_data = {} THEN table
    ELSE UpdateIsProcedure(table, {CHOOSE u \in update_data : TRUE})

\* Stage A's "finally: conn.close()" after an exception: the commit was not
\* reached, and closing the connection rolls back what executemany wrote.
PurgeAborted(table, update_data) == table

\* An exception inside Stage A's try (the read, the scan, the executemany):
\* "except Exception" prints it, the connection is closed without a commit,
\* and the caller goes on to Stage B.
StageAError ==
    /\ cl_pc \in ClassifyEnded \cup {"updateA"}
    /\ speeches' = PurgeAborted(speeches, {[is_proc |-> 1, speech_id |-> x] : x \in cl_matches})
    /\ cl_matches' = {}
    /\ cl_pc' = "fetchB"
    /\ cl_prior' = IF cl_pc = "updateA" THEN cl_prior ELSE (speeches # Unclassified(speeches))
    /\ UNCHANGED <<cl_chunk, cl_results, cl_updates>>
    /\ UNCHANGED <<processed_packages, fail_log, runVars, histVars>>
    /\ UNCHANGED <<fetchVars, workerVars, pureVars>>

\* Stage B, top of "while True": up to CHUNK_SIZE unclassified rows, in no
\* stated order; none left ends the job.
StageBFetch ==
    /\ cl_pc = "fetchB"
    /\ \E df \in SUBSET Unclassified(speeches) :
         /\ Cardinality(df) = Min(CHUNK_SIZE, Cardinality(Unclassified(speeches)))
         /\ cl_chunk' = {r.speech_id : r \in df}
         /\ cl_pc' = IF df = {} THEN "idle" ELSE "chunkB"
         /\ cl_prior' = IF df = {} THEN FALSE ELSE cl_prior
    /\ UNCHANGED <<cl_matches, cl_results, cl_updates>>
    /\ UNCHANGED <<fetchVars, workerVars, ingestVars, pureVars>>

\* Stage B, the inference loop over the chunk: one result per text, and
\* for each the pair (is_proc, speech_id) is appended to updates.
StageBClassify ==
    /\ cl_pc = "chunkB"
    /\ \E results \in [cl_chunk -> ClassifierResults] :
         /\ cl_results' = {[speech_id |-> x, top_label |-> results[x].top_label,
                            score |-> results[x].score] : x \in cl_chunk}
         /\ cl_updates' = {[is_proc |-> IsProc(results[x]), speech_id |-> x] : x \in cl_chunk}
    /\ cl_pc' = "writeB"
    /\ UNCHANGED <<cl_matches, cl_chunk, cl_prior>>
    /\ UNCHANGED <<fetchVars, workerVars, ingestVars, pureVars>>

\* Stage B, the bulk write: the chunk's updates written and committed at once.
StageBWrite ==
    /\ cl_pc = "writeB"
    /\ speeches' = UpdateIsProcedure(speeches, cl_updates)
    /\ cl_chunk' = {}
    /\ cl_results' = {}
    /\ cl_updates' = {}
    /\ cl_pc' = "fetchB"
    /\ UNCHANGED <<cl_matches, cl_prior>>
    /\ UNCHANGED <<processed_packages, fail_log, runVars, histVars>>
    /\ UNCHANGED <<fetchVars, workerVars, pureVars>>

\* Stage B, an interrupt or an exception inside the iteration: sys.exit(0)
\* or sys.exit(1); nothing of the chunk was committed.
StageBAbort ==
    /\ cl_pc \in {"fetchB", "chunkB", "writeB"}
    /\ \E exc \in {"KeyboardInterrupt", "Exception"} :
         cl_pc' = IF exc = "KeyboardInterrupt" THEN "stopped" ELSE "failed"
    /\ cl_chunk' = {}
    /\ cl_results' = {}
    /\ cl_updates' = {}
    /\ cl_prior' = FALSE
    /\ speeches' = AbortedWrite(speeches, cl_updates)
    /\ UNCHANGED cl_matches
    /\ UNCHANGED <<processed_packages, fail_log, runVars, histVars>>
    /\ UNCHANGED <<fetchVars, workerVars, pureVars>>

NextClassify ==
    \/ StageAScan
    \/ StageAUpdate
    \/ StageAError
    \/ StageBFetch
    \/ StageBClassify
    \/ StageBWrite
    \/ StageBAbort

-----------------------------------------------------------------------------
(* Metadata sanitizer called on its own: _sanitize_metadata                *)

\* Values the metadata can hold: scalars, and lists and mappings of them
\* nested two deep.
SanitizeStrings == {<<>>, <<" ">>, <<"a">>, <<" ", "a", " ">>, <<" ", " ", "a">>}
SanitizeScalars == {PyNone, PyNum(0), PyNum(7)} \cup {PyStr(c) : c \in SanitizeStrings}
OtherKey == <<"x">>
DictKeys == {SanitizeKeys[i] : i \in 1..Len(SanitizeKeys)} \cup {OtherKey}
PyDicts(vals) ==
    {PyDict(<<>>)}
    \cup {PyDict(<<[key |-> k, val |-> v]>>) : k \in DictKeys, v \in vals}
PyLists(vals) == {PyList(<<>>)} \cup {PyList(<<v>>) : v \in vals}
SanitizeFlat == PyDicts(SanitizeScalars) \cup PyLists(SanitizeScalars)
SanitizePairs ==
    {PyDict(<<[key |-> SanitizeKeys[ij[1]], val |-> v], [key |-> SanitizeKeys[ij[2]], val |-> w]>>) :
        ij \in {p \in (1..Len(SanitizeKeys)) \X (1..Len(SanitizeKeys)) : p[1] # p[2]},
        v \in SanitizeScalars, w \in SanitizeScalars}
SanitizeInputs ==
    SanitizeScalars \cup SanitizeFlat \cup SanitizePairs
    \cup PyDicts(SanitizeFlat) \cup PyLists(SanitizeFlat)

\* A caller passes a metadata value.
SanitizeCall ==
    /\ sn_pc = "idle"
    /\ \E value \in SanitizeInputs :
        /\ sn_in' = value
        /\ sn_out' = _sanitize_metadata(value)
    /\ sn_pc' = "called"
    /\ UNCHANGED <<sn_again, cleanVars, resolveVars, readVars, poolVars, rebuildVars, fetchVars, workerVars, ingestVars, classifyVars>>

\* The value returned is passed in again.
SanitizeAgain ==
    /\ sn_pc = "called"
    /\ sn_again' = _sanitize_metadata(PyStr(sn_out))
    /\ sn_pc' = "again"
    /\ UNCHANGED <<sn_in, sn_out, cleanVars, resolveVars, readVars, poolVars, rebuildVars, fetchVars, workerVars, ingestVars, classifyVars>>

NextSanitize ==
    \/ SanitizeCall
    \/ SanitizeAgain

-----------------------------------------------------------------------------
(* Text normalizer called on its own: clean_speech_text                    *)

MaxTextLen == 5

\* Raw texts put together from words, blanks, closing brackets and the
\* boilerplate the patterns cut out.
CleanFragments == {Words(3), Space, Bracket, Hdr}
CleanInputs == UNION {[1..n -> CleanFragments] : n \in 0..MaxTextLen}

CleanCall ==
    /\ cs_pc = "idle"
    /\ \E raw_text \in CleanInputs :
        /\ cs_in' = raw_text
        /\ cs_out' = clean_speech_text(raw_text)
    /\ cs_pc' = "called"
    /\ UNCHANGED <<cs_again, sanitizeVars, resolveVars, readVars, poolVars, rebuildVars, fetchVars, workerVars, ingestVars, classifyVars>>

CleanAgain ==
    /\ cs_pc = "called"
    /\ cs_again' = clean_speech_text(cs_out)
    /\ cs_pc' = "again"
    /\ UNCHANGED <<cs_in, cs_out, sanitizeVars, resolveVars, readVars, poolVars, rebuildVars, fetchVars, workerVars, ingestVars, classifyVars>>

NextClean ==
    \/ CleanCall
    \/ CleanAgain

-----------------------------------------------------------------------------
(* Speaker resolution called on its own                                    *)

\* Members as the granule detail can hold them: mappings with and without
\* each of the four keys, and values that are no mapping.
MemberNames == {<<"D", "o", "e", ",", " ", "J", "a", "n", "e">>, <<"J", "a", "n", "e", " ", "D", "o", "e">>, <<"J", "a", "n", "e", " ", "Q", " ", "D", "o", "e">>, <<"D", "o", "e">>, <<"D", "o", "e", ",">>, <<",", " ", "J", "a", "n", "e">>, <<"D", "o", "e", ",", " ", "J", "a", "n", "e", ",", " ", "J", "r">>, <<" ", "D", "o", "e", " ", ",", " ", "J", "a", "n", "e", " ">>, <<>>}
MemberBioguideIds == {PyStr(<<"D", "0", "0", "0", "1", "2", "3">>), PyStr(<<"X", "Y", "Z">>), PyStr(<<"S", "0", SuperTwo>>), PyStr(<<"U", "n", "k", "n", "o", "w", "n", "7">>), PyNone, PyNum(123)}
Pairs(key, vals) == {<<>>} \cup {<<[key |-> key, val |-> v]>> : v \in vals}
MemberDicts ==
    {PyDict(n \o p \o st \o b) :
        n \in Pairs(KeyName, {PyStr(c) : c \in MemberNames} \cup {PyNone, PyDict(<<[key |-> SanitizeKeys[1], val |-> PyStr(<<"J", "a", "n", "e", " ", "D", "o", "e">>)]>>)}),
        p \in Pairs(KeyParty, {PyStr(<<"D">>), PyNone}),
        st \in Pairs(KeyState, {PyStr(<<"C", "A">>)}),
        b \in Pairs(KeyBioguideId, MemberBioguideIds)}
OtherMember == PyDict(<<[key |-> KeyName, val |-> PyStr(<<"R", "o", "e", ",", " ", "R", "i", "c", "k">>)], [key |-> KeyParty, val |-> PyStr(<<"R">>)],
                        [key |-> KeyState, val |-> PyStr(<<"T", "X">>)], [key |-> KeyBioguideId, val |-> PyStr(<<"R", "0", "0", "0", "9", "9", "9">>)]>>)
ResolveMembers ==
    {PyList(<<m>>) : m \in MemberDicts} \cup {PyList(<<m, OtherMember>>) : m \in MemberDicts}
    \cup {PyList(<<>>), PyNone, PyNum(0), PyNum(7), PyStr(<<>>), PyStr(<<"S", "m", "i", "t", "h">>), PyDict(<<>>), OtherMember,
          PyList(<<PyStr(<<"S", "m", "i", "t", "h">>)>>), PyList(<<PyNone>>), PyList(<<PyList(<<>>)>>), PyList(<<PyNum(0)>>)}
ResolveTexts == {<<"M", "r", ".", " ", "S", "M", "I", "T", "H", " ", "o", "f", " ", "T", "e", "x", "a", "s", ".", " ", "I", " ", "y", "i", "e", "l", "d", " ", "b", "a", "c", "k", " ", "t", "h", "e", " ", "b", "a", "l", "a", "n", "c", "e", " ", "o", "f", " ", "m", "y", " ", "t", "i", "m", "e", ".">>,
                 <<"T", "h", "e", " ", "S", "P", "E", "A", "K", "E", "R", " ", "p", "r", "o", " ", "t", "e", "m", "p", "o", "r", "e", ":", " ", "T", "h", "e", " ", "C", "h", "a", "i", "r">>,
                 <<"M", "r", ".", " ", " ", ".", " ", "I", " ", "y", "i", "e", "l", "d", " ", "b", "a", "c", "k">>,
                 <<"M", "r", ".", " ", ".", " ", "I", " ", "y", "i", "e", "l", "d", " ", "b", "a", "c", "k">>,
                 <<"M", "r", "s", ".", " ", "J", "O", "N", "E", "S", " ", "o", "f", " ", "o", "f", " ", "O", "h", "i", "o", ".", " ", "I">>,
                 <<"M", "r", ".", " ", "o", "f", " ", "T", "e", "x", "a", "s", ".", " ", "I", " ", "y", "i", "e", "l", "d">>,
                 <<"D", "r", ".", " ", "S", "M", "I", "T", "H", ".", " ", "I", " ", "r", "i", "s", "e">>,
                 <<"M", "s", ".", " ", "L", "E", "E", ":", " ", "I", " ", "r", "i", "s", "e">>,
                 <<"I", " ", "r", "i", "s", "e", " ", "t", "o", "d", "a", "y">>,
                 <<"M", "r", ".", "S", "M", "I", "T", "H", ".", " ", "I", " ", "r", "i", "s", "e">>,
                 <<"m", "r", ".", " ", "s", "m", "i", "t", "h", ".", " ", "I", " ", "r", "i", "s", "e">>,
                 <<"T", "h", "e", " ", " ", ":", " ", "x">>,
                 <<"M", "r", ".", " ", "S", "M", "I", "T", "H", "S", "M", "I", "T", "H", "S", "M", "I", "T", "H", "S", "M", "I", "T", "H", "S", "M", "I", "T", "H", "S", "M", "I", "T", "H", "S", "M", "I", "T", "H", "S", "M", "I", "T", "H", "S", "M", "I", "T", "H", "S", "M", "I", "T", "H", ".", " ", "I", " ", "r", "i", "s", "e">>}

\* The step is run for one granule's member list and normalized text.
ResolveCall ==
    /\ rs_pc = "idle"
    /\ \E members \in ResolveMembers, clean_text \in ResolveTexts :
        /\ rs_members' = members
        /\ rs_text' = clean_text
        /\ rs_out' = ResolveSpeaker(members, clean_text)
    /\ rs_pc' = "called"
    /\ UNCHANGED <<sanitizeVars, cleanVars, readVars, poolVars, rebuildVars, fetchVars, workerVars, ingestVars, classifyVars>>

NextResolve == ResolveCall

-----------------------------------------------------------------------------
(* Read side: DatabaseManager.is_substantive and get_partisan_share        *)

\* str.lower()
Lower(chars) ==
    [i \in 1..Len(chars) |-> IF chars[i] \in LetterSet THEN LowerCase[LetterIdx(chars[i])] ELSE chars[i]]

\* [f"{words[i]} {words[i+1]}" for i in range(len(words)-1)]
Bigrams(words) == [i \in 1..(Len(words) - 1) |-> words[i] \o <<" ">> \o words[i + 1]]

\* if len(words) < 10: return False
MinWords == 10
\* (noise_count / len(words)) < 0.30 ; for counts of this size the
\* comparison of the floats is that of the fractions.
NoisePercent == 30

is_substantive(text, procedural_terms) ==
    IF text = <<>> THEN FALSE
    ELSE LET words == SplitWords(Lower(text))
             bigrams == Bigrams(words)
             noise_count == Cardinality({i \in 1..Len(bigrams) : bigrams[i] \in procedural_terms})
         IN IF Len(words) < MinWords THEN FALSE
            ELSE 100 * noise_count < NoisePercent * Len(words)

\* Texts of up to MaxWords words over two words, one blank between them, and
\* the lexicon that holds the bigram of the two.
MaxWords == 11
TextWords == {<<"a">>, <<"B">>}
RECURSIVE JoinWords(_)
JoinWords(words) ==
    IF words = <<>> THEN <<>>
    ELSE IF Len(words) = 1 THEN words[1]
    ELSE words[1] \o <<" ">> \o JoinWords(Tail(words))
SubstantiveTexts == {JoinWords(w) : w \in UNION {[1..n -> TextWords] : n \in {0, 1} \cup (MinWords - 1)..MaxWords}}
Lexicons == {{}, {<<"a", " ", "b">>}}

SubstantiveCall ==
    /\ sb_pc = "idle"
    /\ \E text \in SubstantiveTexts, procedural_terms \in Lexicons :
        /\ sb_text' = text
        /\ sb_terms' = procedural_terms
        /\ sb_out' = is_substantive(text, procedural_terms)
    /\ sb_pc' = "called"
    /\ UNCHANGED <<ps_pc, ps_table, ps_out>>
    /\ UNCHANGED <<sanitizeVars, cleanVars, resolveVars, poolVars, rebuildVars, fetchVars, workerVars, ingestVars, classifyVars>>

NextSubstantive == SubstantiveCall

PartyD == <<"D">>
PartyR == <<"R">>

\* Variant of ShareRows without the test of the party.
ShareRows_AnyParty(table) == {r \in table : HoldsPhrase(r.speech) /\ r.is_mapped = 1}

\* WHERE speech LIKE ? AND is_mapped = 1 AND party IN ('D', 'R')
ShareRows(table) ==
    {r \in table : HoldsPhrase(r.speech) /\ r.is_mapped = 1 /\ r.party \in {PartyD, PartyR}}

\* GROUP BY congress_session with the three aggregates, and the column
\* rep_share = R_count / total as the fraction num / den.
get_partisan_share(table) ==
    LET rows == ShareRows(table)
        group(c) == {r \in rows : r.congress_session = c}
        R_count(c) == Cardinality({r \in group(c) : r.party = PartyR})
    IN {[congress_session |-> c,
         D_count |-> Cardinality({r \in group(c) : r.party = PartyD}),
         R_count |-> R_count(c),
         total |-> Cardinality(group(c)),
         rep_share |-> [num |-> R_count(c), den |-> Cardinality(group(c))]] :
            c \in {r.congress_session : r \in rows}}

\* Tables of speeches: k rows of one session, party, mapping and text each.
ShareRowsOf(c, party, is_mapped, speech, k) ==
    {Row(DataTuple(<<c, party, is_mapped, i>>, speech, 20110105,
                   [Sentinel EXCEPT !.party = party, !.is_mapped = is_mapped], c)) : i \in 1..k}
ShareTables ==
    {ShareRowsOf("112", PartyD, 1, <<Phrase(120)>>, d) \cup ShareRowsOf("112", PartyR, 1, <<Phrase(120)>>, r)
     \cup ShareRowsOf("112", <<"I">>, 1, <<Phrase(120)>>, i) \cup ShareRowsOf("112", PartyR, 0, <<Phrase(120)>>, u)
     \cup ShareRowsOf("112", PartyD, 1, <<Words(600)>>, w) \cup ShareRowsOf("111", PartyD, 1, <<Phrase(120)>>, d1)
     \cup ShareRowsOf("111", PartyR, 1, <<Phrase(120)>>, r1) :
        d \in {0, 1, 30}, r \in {0, 1, 70}, i \in {0, 2}, u \in {0, 1}, w \in {0, 1},
        d1 \in {0, 1}, r1 \in {0, 1}}

ShareCall ==
    /\ ps_pc = "idle"
    /\ \E table \in ShareTables :
        /\ ps_table' = table
        /\ ps_out' = get_partisan_share(table)
    /\ ps_pc' = "called"
    /\ UNCHANGED <<sb_pc, sb_text, sb_terms, sb_out>>
    /\ UNCHANGED <<sanitizeVars, cleanVars, resolveVars, poolVars, rebuildVars, fetchVars, workerVars, ingestVars, classifyVars>>

NextShare == ShareCall

-----------------------------------------------------------------------------
(* The worker pool of one page (process_package, the with block)           *)

MAX_WORKERS == 3
Threads == 1..MAX_WORKERS

\* The pages handed to the pool.
PoolPages == {<<gH1, gS2>>, <<gH1, gE3, gS2, gUH5>>}

NoConn == 0
\* A cookie of the jar: its value and the granule whose call stored it.
NoCookie == [val |-> "none", by |-> <<>>]
\* A thread that runs no call.
FreeThread == [gran |-> <<>>, at |-> "free", conn |-> NoConn, sent |-> NoCookie,
               summary_resp |-> None]
\* requests.Session(): an empty cookie jar and no connection; opened lists,
\* for every connection made, the granule whose call made it.
NewSession == [cookie |-> NoCookie, idle |-> {}, opened |-> <<>>]

\* What the server may answer to one request: safe_get gives the response
\* or None, and the answer sets a cookie or none.
PoolAnswers == {[ret |-> r, set_cookie |-> c] : r \in {Response(1, 200), None}, c \in {"none", "a"}}

\* session.get takes a connection of the pool, or makes one if none is idle.
TakeConn(session, g) ==
    IF session.idle # {}
    THEN {[conn |-> c, session |-> [session EXCEPT !.idle = @ \ {c}]] : c \in session.idle}
    ELSE {[conn |-> Len(session.opened) + 1,
           session |-> [session EXCEPT !.opened = Append(@, g)]]}

\* The response is read: its cookie goes to the jar of the session and the
\* connection back to the pool.
GiveBack(session, g, conn, set_cookie) ==
    [session EXCEPT !.idle = @ \cup {conn},
                    !.cookie = IF set_cookie = "none" THEN @
                               ELSE [val |-> set_cookie, by |-> g]]

\* executor.submit(self._fetch_single_speech, g, ...) for g in granules
PoolSubmit ==
    /\ pl_pc = "idle"
    /\ \E page \in PoolPages :
         /\ pl_jobs' = page
         /\ pl_out' = [g \in SeqRange(page) |-> NoOutcome]
    /\ pl_thread' = [w \in Threads |-> FreeThread]
    /\ pl_pc' = "running"
    /\ UNCHANGED pl_session
    /\ UNCHANGED <<sanitizeVars, cleanVars, resolveVars, readVars, rebuildVars, fetchVars, workerVars, ingestVars, classifyVars>>

\* A free thread takes the next granule and runs the filter: the call ends
\* there, or goes on to the metadata fetch.  The threads of the pool are
\* alike, so of the free threads the first is the one that takes it.
PoolTake(w) ==
    /\ pl_pc = "running"
    /\ pl_thread[w].at = "free"
    /\ \A v \in Threads : v < w => pl_thread[v].at # "free"
    /\ pl_jobs # <<>>
    /\ LET g == Head(pl_jobs)
           f == FilterStep(g)
       IN IF f # NoOutcome
          THEN /\ pl_out' = [pl_out EXCEPT ![g] = f]
               /\ UNCHANGED pl_thread
          ELSE /\ pl_thread' = [pl_thread EXCEPT ![w] = [FreeThread EXCEPT !.gran = g, !.at = "metadata"]]
               /\ UNCHANGED pl_out
    /\ pl_jobs' = Tail(pl_jobs)
    /\ UNCHANGED <<pl_pc, pl_session>>
    /\ UNCHANGED <<sanitizeVars, cleanVars, resolveVars, readVars, rebuildVars, fetchVars, workerVars, ingestVars, classifyVars>>

\* safe_get, self.session.get(...): the request is prepared with the
\* cookie of the session and sent on a connection of its pool.
PoolSend(w) ==
    /\ pl_pc = "running"
    /\ pl_thread[w].at \in {"metadata", "text"}
    /\ pl_thread[w].conn = NoConn
    /\ \E t \in TakeConn(pl_session, pl_thread[w].gran) :
         /\ pl_session' = t.session
         /\ pl_thread' = [pl_thread EXCEPT ![w].conn = t.conn, ![w].sent = pl_session.cookie]
    /\ UNCHANGED <<pl_pc, pl_jobs, pl_out>>
    /\ UNCHANGED <<sanitizeVars, cleanVars, resolveVars, readVars, rebuildVars, fetchVars, workerVars, ingestVars, classifyVars>>

\* The answer arrives and safe_get returns; after the metadata the call
\* ends in "Metadata Fail" or goes on to the text, after the text it ends
\* in its outcome.
PoolReceive(w) ==
    /\ pl_pc = "running"
    /\ pl_thread[w].conn # NoConn
    /\ \E a \in PoolAnswers :
         LET th == pl_thread[w]
             g == th.gran
             api == [summary_resp |-> IF th.at = "metadata" THEN a.ret ELSE th.summary_resp,
                     body |-> [kind |-> "object", download |-> "link", members |-> "dicts", congress |-> "112"],
                     t_resp |-> a.ret,
                     raw_text |-> GranuleText(g)]
         IN /\ pl_session' = GiveBack(pl_session, g, th.conn, a.set_cookie)
            /\ IF th.at = "metadata" /\ IsResp(a.ret)
               THEN /\ pl_thread' = [pl_thread EXCEPT ![w].at = "text", ![w].conn = NoConn,
                                                      ![w].sent = NoCookie,
                                                      ![w].summary_resp = a.ret]
                    /\ UNCHANGED pl_out
               ELSE /\ pl_thread' = [pl_thread EXCEPT ![w] = FreeThread]
                    /\ pl_out' = [pl_out EXCEPT ![g] = _fetch_single_speech(g, 20110105, "112", api)]
    /\ UNCHANGED <<pl_pc, pl_jobs>>
    /\ UNCHANGED <<sanitizeVars, cleanVars, resolveVars, readVars, rebuildVars, fetchVars, workerVars, ingestVars, classifyVars>>

\* The with block is left: every future has completed.
PoolJoin ==
    /\ pl_pc = "running"
    /\ pl_jobs = <<>>
    /\ \A w \in Threads : pl_thread[w].at = "free"
    /\ pl_pc' = "joined"
    /\ UNCHANGED <<pl_jobs, pl_thread, pl_session, pl_out>>
    /\ UNCHANGED <<sanitizeVars, cleanVars, resolveVars, readVars, rebuildVars, fetchVars, workerVars, ingestVars, classifyVars>>

NextPool ==
    \/ PoolSubmit
    \/ \E w \in Threads : PoolTake(w)
    \/ \E w \in Threads : PoolSend(w)
    \/ \E w \in Threads : PoolReceive(w)
    \/ PoolJoin

-----------------------------------------------------------------------------
(* The rebuild from the legacy session files (utils/mergeSpeeches.py)      *)

\* for i in range(43, 115): the model's range ends after a few sessions.
FirstSession == 43
LastSession == 46
Sessions == FirstSession..LastSession

\* What the folder holds for one session: a file of the three missing, a
\* file the parser or the merge fails on, or files that give n rows.
SessionFiles ==
    {[kind |-> "missing", rows |-> 0], [kind |-> "malformed", rows |-> 0],
     [kind |-> "ok", rows |-> 1], [kind |-> "ok", rows |-> 2]}

NoFiles == [kind |-> "none", rows |-> 0]
NoFrame == [kind |-> "None", rows |-> {}, log |-> <<>>]

\* The frame of a session: its rows carry congress_session = int(session_num).
Frame(session_num, n) ==
    {[speech_id |-> <<session_num, k>>, congress_session |-> session_num] : k \in 1..n}

\* Variant of load_congress_data without the except clause.
load_congress_data_NoExcept(session_num, files) ==
    CASE files.kind = "missing" -> NoFrame
      [] files.kind = "malformed" -> [kind |-> "raised", rows |-> {}, log |-> <<>>]
      [] files.kind = "ok" ->
           [kind |-> "frame", rows |-> Frame(session_num, files.rows),
            log |-> <<[level |-> "INFO", session |-> session_num, what |-> "rows"]>>]

\* load_congress_data: None when a file is missing; an exception of the
\* reading, the merge or the column logic is logged and gives None; else
\* the frame, with its match rate logged.
load_congress_data(session_num, files) ==
    CASE files.kind = "missing" -> NoFrame
      [] files.kind = "malformed" ->
           [NoFrame EXCEPT !.log = <<[level |-> "ERROR", session |-> session_num,
                                      what |-> "Critical Parser Failure"]>>]
      [] files.kind = "ok" ->
           [kind |-> "frame", rows |-> Frame(session_num, files.rows),
            log |-> <<[level |-> "INFO", session |-> session_num, what |-> "rows"]>>]

\* main up to the loop: the log is opened with mode 'w', the database
\* connected.
RebuildStart ==
    /\ rb_pc = "idle"
    /\ rb_pc' = "running"
    /\ rb_i' = FirstSession
    /\ rb_files' = NoFiles
    /\ rb_log' = <<[level |-> "INFO", session |-> 0, what |-> "Starting Full Database Rebuild..."]>>
    /\ UNCHANGED rb_table
    /\ UNCHANGED <<sanitizeVars, cleanVars, resolveVars, readVars, poolVars, fetchVars, workerVars, ingestVars, classifyVars>>

\* One iteration of the for loop: load_congress_data, and to_sql when it
\* gave a frame.  to_sql stands outside any try: when the database refuses
\* the append, the exception leaves main.
RebuildSession ==
    /\ rb_pc = "running"
    /\ rb_i <= LastSession
    /\ \E files \in SessionFiles, to_sql \in {"ok", "fails"} :
         LET df == load_congress_data(rb_i, files)
         IN /\ rb_files' = files
            /\ IF df.kind = "raised" \/ (df.kind = "frame" /\ to_sql = "fails")
               THEN /\ rb_pc' = "crashed"
                    /\ rb_log' = rb_log \o df.log
                    /\ UNCHANGED <<rb_i, rb_table>>
               ELSE /\ rb_table' = rb_table \cup df.rows
                    /\ rb_log' = rb_log \o df.log
                                \o (IF df.kind = "frame"
                                    THEN <<[level |-> "INFO", session |-> rb_i, what |-> "Successfully committed."]>>
                                    ELSE <<>>)
                    /\ rb_i' = rb_i + 1
                    /\ rb_pc' = "running"
    /\ UNCHANGED <<sanitizeVars, cleanVars, resolveVars, readVars, poolVars, fetchVars, workerVars, ingestVars, classifyVars>>

\* After the loop: conn.close(), "Rebuild Complete."
RebuildEnd ==
    /\ rb_pc = "running"
    /\ rb_i > LastSession
    /\ rb_pc' = "done"
    /\ rb_log' = Append(rb_log, [level |-> "INFO", session |-> 0, what |-> "Rebuild Complete."])
    /\ UNCHANGED <<rb_i, rb_files, rb_table>>
    /\ UNCHANGED <<sanitizeVars, cleanVars, resolveVars, readVars, poolVars, fetchVars, workerVars, ingestVars, classifyVars>>

NextRebuild == RebuildStart \/ RebuildSession \/ RebuildEnd

-----------------------------------------------------------------------------
(* Specifications                                                          *)

\* Nothing has been called yet.
Init ==
    /\ sg_pc = "idle"
    /\ sg_i = 0
    /\ sg_ret = NoReturn
    /\ sg_log = <<>>
    /\ w_pc = "idle"
    /\ w_gran = <<>>
    /\ w_calls = <<>>
    /\ w_resps = <<>>
    /\ w_json = NoJson
    /\ w_raw = <<>>
    /\ w_out = NoOutcome
    /\ speeches = {}
    /\ processed_packages = {}
    /\ fail_log = {}
    /\ pc = "idle"
    /\ processed_ids = {}
    /\ all_packages = <<>>
    /\ list_offset = 0
    /\ pkg_i = 1
    /\ offset = 0
    /\ granules = <<>>
    /\ pending = {}
    /\ results_to_insert = <<>>
    /\ attempted = {}
    /\ errored = {}
    /\ produced = {}
    /\ called = {}
    /\ fetched = {}
    /\ start_ledger = {}
    /\ rewritten = {}
    /\ interrupted = [p \in PkgIds |-> -1]
    /\ cl_pc = "idle"
    /\ cl_matches = {}
    /\ cl_chunk = {}
    /\ cl_results = {}
    /\ cl_updates = {}
    /\ cl_prior = FALSE
    /\ sn_pc = "idle"
    /\ sn_in = PyNone
    /\ sn_out = <<>>
    /\ sn_again = <<>>
    /\ cs_pc = "idle"
    /\ cs_in = <<>>
    /\ cs_out = <<>>
    /\ cs_again = <<>>
    /\ rs_pc = "idle"
    /\ rs_members = PyNone
    /\ rs_text = <<>>
    /\ rs_out = Sentinel
    /\ sb_pc = "idle"
    /\ sb_text = <<>>
    /\ sb_terms = {}
    /\ sb_out = FALSE
    /\ ps_pc = "idle"
    /\ ps_table = {}
    /\ ps_out = {}
    /\ pl_pc = "idle"
    /\ pl_jobs = <<>>
    /\ pl_thread = [w \in Threads |-> FreeThread]
    /\ pl_session = NewSession
    /\ pl_out = <<>>
    /\ rb_pc = "idle"
    /\ rb_i = FirstSession
    /\ rb_files = NoFiles
    /\ rb_table = {}
    /\ rb_log = <<>>

\* Stores the ingestion can have left for the classification job: up to
\* three rows, none classified yet; short texts with a procedural phrase,
\* with a near-phrase and with neither, and a long text with a phrase.
ClassifyIds == {gH1, gS2, gUH5}
ClassifyTexts == {<<Phrase(120)>>, <<NearPhrase(120)>>, <<Words(60)>>, <<Phrase(120), Words(600)>>}
StoredRow(g, t) == Row(DataTuple(g, t, 20110105, PrimaryPath(JaneDoe), "112"))
ClassifyStores ==
    {{StoredRow(g, f[g]) : g \in D} : D \in SUBSET ClassifyIds, f \in [ClassifyIds -> ClassifyTexts]}

\* The classification job is started on a store the ingestion has filled.
InitClassify ==
    /\ sg_pc = "idle"
    /\ sg_i = 0
    /\ sg_ret = NoReturn
    /\ sg_log = <<>>
    /\ w_pc = "idle"
    /\ w_gran = <<>>
    /\ w_calls = <<>>
    /\ w_resps = <<>>
    /\ w_json = NoJson
    /\ w_raw = <<>>
    /\ w_out = NoOutcome
    /\ speeches \in ClassifyStores
    /\ processed_packages = {}
    /\ fail_log = {}
    /\ pc = "idle"
    /\ processed_ids = {}
    /\ all_packages = <<>>
    /\ list_offset = 0
    /\ pkg_i = 1
    /\ offset = 0
    /\ granules = <<>>
    /\ pending = {}
    /\ results_to_insert = <<>>
    /\ attempted = {}
    /\ errored = {}
    /\ produced = {}
    /\ called = {}
    /\ fetched = {}
    /\ start_ledger = {}
    /\ rewritten = {}
    /\ interrupted = [p \in PkgIds |-> -1]
    /\ cl_pc = "idle"
    /\ cl_matches = {}
    /\ cl_chunk = {}
    /\ cl_results = {}
    /\ cl_updates = {}
    /\ cl_prior = FALSE
    /\ sn_pc = "idle"
    /\ sn_in = PyNone
    /\ sn_out = <<>>
    /\ sn_again = <<>>
    /\ cs_pc = "idle"
    /\ cs_in = <<>>
    /\ cs_out = <<>>
    /\ cs_again = <<>>
    /\ rs_pc = "idle"
    /\ rs_members = PyNone
    /\ rs_text = <<>>
    /\ rs_out = Sentinel
    /\ sb_pc = "idle"
    /\ sb_text = <<>>
    /\ sb_terms = {}
    /\ sb_out = FALSE
    /\ ps_pc = "idle"
    /\ ps_table = {}
    /\ ps_out = {}
    /\ pl_pc = "idle"
    /\ pl_jobs = <<>>
    /\ pl_thread = [w \in Threads |-> FreeThread]
    /\ pl_session = NewSession
    /\ pl_out = <<>>
    /\ rb_pc = "idle"
    /\ rb_i = FirstSession
    /\ rb_files = NoFiles
    /\ rb_table = {}
    /\ rb_log = <<>>

SpecFetch == Init /\ [][NextFetch]_vars

SpecWorker == Init /\ [][NextWorker]_vars

SpecSanitize == Init /\ [][NextSanitize]_vars

SpecClean == Init /\ [][NextClean]_vars

SpecResolve == Init /\ [][NextResolve]_vars

SpecSubstantive == Init /\ [][NextSubstantive]_vars

SpecShare == Init /\ [][NextShare]_vars

SpecPool == Init /\ [][NextPool]_vars

SpecRebuild == Init /\ [][NextRebuild]_vars

\* The ingestion and the classification job are two processes on one store.
Next == NextIngest \/ NextClassify

Spec == Init /\ [][Next]_vars

\* The classification job alone on the store: no one else writes to it.
SpecClassify == InitClassify /\ [][NextClassify]_vars

\* A started step of the job is carried out unless the job is stopped: the
\* script runs Stage A and the Stage B loop one statement after the other.
SpecClassifyFair ==
    SpecClassify /\ WF_vars(StageAUpdate \/ StageBFetch \/ StageBClassify \/ StageBWrite)

-----------------------------------------------------------------------------
(* Properties of safe_get (checked under SpecFetch)                        *)

RequestIdx(log) == {k \in 1..Len(log) : log[k].ev = "request"}
NumRequests(log) == Cardinality(RequestIdx(log))
OkIdx(log) == {k \in RequestIdx(log) : log[k].code = 200}
\* Position among the requests (1st, 2nd, 3rd) of the event log[k].
AttemptNo(log, k) == Cardinality({j \in RequestIdx(log) : j <= k})

\* C6: one call of safe_get issues at most 3 requests; each request, whatever
\* it answers (any status, or an exception), uses up exactly one attempt and
\* nothing is propagated: the call returns a response or None.  It returns
\* the response of the first attempt that answered 200 (and issues nothing
\* after it), and None when no attempt answered 200.
C6_SafeGetBudget ==
    /\ NumRequests(sg_log) <= 3
    /\ sg_i = NumRequests(sg_log)
    /\ sg_pc = "returned" =>
         /\ sg_ret.kind \in {"Response", "None"}
         /\ IF OkIdx(sg_log) # {}
            THEN \E k \in OkIdx(sg_log) :
                   /\ \A j \in OkIdx(sg_log) : k <= j
                   /\ k = Len(sg_log)
                   /\ sg_ret = Response(AttemptNo(sg_log, k), 200)
            ELSE sg_ret = None

\* An exception, then a 500, then a 200 on the third and last attempt.
C6_Witness ==
    /\ sg_pc = "returned"
    /\ sg_ret = Response(3, 200)
    /\ sg_log = <<Raised, Sleep(RetrySleep), Request(500), Sleep(RetrySleep), Request(200)>>

\* C7: a 404 on any attempt ends the call at once with None: the 404 request
\* is the last event of the call (no sleep, no further request), whatever
\* number of attempts remains.
C7_NotFoundImmediate ==
    \A k \in 1..Len(sg_log) :
        sg_log[k] = Request(404) =>
            /\ k = Len(sg_log)
            /\ sg_ret = None
            /\ sg_pc \in {"loop", "returned"}
            /\ SafeGetLoopEnds([i |-> sg_i, ret |-> sg_ret, log |-> sg_log])

\* A 404 on the first attempt, two attempts left, the call has returned None.
C7_Witness ==
    /\ sg_pc = "returned"
    /\ sg_log = <<Request(404)>>
    /\ sg_i = 1
    /\ sg_ret = None

\* C8 (safe_get's part): every 429 is followed directly by the cooldown
\* sleep and counts as one attempt; after the sleep the loop goes on to the
\* next request while fewer than 3 requests were made, and a call whose
\* last attempt was a 429 returns None once the 3 attempts are used up.
\* The worker that gets None from either of its two calls ends in an ERROR
\* outcome and raises nothing.
C8_RateLimitInBudget ==
    /\ \A k \in 1..Len(sg_log) :
         sg_log[k] = Request(429) =>
            /\ k < Len(sg_log)
            /\ sg_log[k + 1] = Sleep(RateLimitSleep)
            /\ AttemptNo(sg_log, k) <= 3
            /\ sg_i >= AttemptNo(sg_log, k)
    /\ (Len(sg_log) > 0 /\ sg_log[Len(sg_log)] = Sleep(2700)) =>
         IF NumRequests(sg_log) < 3
         THEN /\ sg_pc = "loop"
              /\ ~SafeGetLoopEnds([i |-> sg_i, ret |-> sg_ret, log |-> sg_log])
         ELSE /\ SafeGetLoopEnds([i |-> sg_i, ret |-> sg_ret, log |-> sg_log])
              /\ SafeGetValue([i |-> sg_i, ret |-> sg_ret, log |-> sg_log]) = None
              /\ sg_pc = "returned" => sg_ret = None
    /\ (sg_pc = "returned" /\ sg_ret = None) =>
         \A g \in WorkerGranIds, body \in SummaryBodies :
            /\ MetadataStep(g, sg_ret, body) = Error(g, "Metadata Fail")
            /\ TextStep(g, sg_ret) = Error(g, "Text Download Fail")

\* Three 429 answers in a row: three cooldowns, then None.
C8_Witness ==
    /\ sg_pc = "returned"
    /\ sg_ret = None
    /\ sg_log = <<Request(429), Sleep(2700), Request(429), Sleep(2700), Request(429), Sleep(2700)>>


-----------------------------------------------------------------------------
(* Properties of _fetch_single_speech (checked under SpecWorker)           *)

TerminalStatuses == {"SUCCESS", "SKIP", "ERROR"}

\* C9: whatever the Fetch Client gives (a response, None, a body that is
\* not JSON, member metadata of any shape), a finished run of
\* _fetch_single_speech has ended in one of SUCCESS, SKIP, ERROR.
C9_WorkerEndsInOutcome ==
    w_pc = "done" => w_out.status \in TerminalStatuses

\* C10: a granule whose id holds none of PgH, PgS, PGH, PGS, or holds
\* FrontMatter or BackMatter, ends in SKIP with no Fetch Client call made;
\* every other granule goes on to the metadata fetch, which is its first
\* Fetch Client call.
C10_FilterBeforeFetch ==
    LET floor == \E x \in {PgH, PgS, PGH, PGS} : IsSubstring(x, w_gran)
        matter == IsSubstring(FrontMatter, w_gran) \/ IsSubstring(BackMatter, w_gran)
    IN w_pc \notin {"idle", "filter"} =>
         IF ~floor \/ matter
         THEN /\ w_pc = "done"
              /\ w_out.status = "SKIP"
              /\ w_calls = <<>>
         ELSE \/ w_pc = "metadata" /\ w_calls = <<>>
              \/ Len(w_calls) >= 1 /\ w_calls[1] = "granuleLink"

\* A House page that is front matter: skipped by the second test, unfetched.
C10_Witness ==
    /\ w_pc = "done"
    /\ w_gran = gHFront
    /\ w_out = Skip("Front/BackMatter")
    /\ w_calls = <<>>

\* The text link is missing from the granule-detail document: there is no
\* "download" object, it is null, or it holds no usable txtLink.
NoTextLink(summary_json) ==
    summary_json.kind = "object" /\ summary_json.download \in {"absent", "null", "nolink"}

\* C11: the worker calls the Fetch Client for the metadata first and for the
\* text second, at most these two calls; the text fetch is made only after
\* a metadata fetch that gave a response.  A null metadata fetch ends the
\* worker in ERROR "Metadata Fail" and a missing text link in ERROR "No Text
\* Link", both with no text fetch made; a null text fetch ends it in ERROR
\* "Text Download Fail".
C11_FetchOrder ==
    /\ w_calls \in {<<>>, <<"granuleLink">>, <<"granuleLink", "txtLink">>}
    /\ Len(w_resps) = Len(w_calls)
    /\ Len(w_calls) = 2 => IsResp(w_resps[1])
    /\ (Len(w_calls) >= 1 /\ ~IsResp(w_resps[1])) =>
         /\ w_pc = "done"
         /\ w_out = Error(w_gran, "Metadata Fail")
         /\ Len(w_calls) = 1
    /\ (Len(w_calls) >= 1 /\ IsResp(w_resps[1]) /\ NoTextLink(w_json)) =>
         /\ w_pc = "done"
         /\ w_out = Error(w_gran, "No Text Link")
         /\ Len(w_calls) = 1
    /\ (Len(w_calls) = 2 /\ ~IsResp(w_resps[2])) =>
         /\ w_pc = "done"
         /\ w_out = Error(w_gran, "Text Download Fail")

\* C12: a worker that passed the filter and got a response from both
\* fetches ends in SKIP "Empty/Header Only" when the normalized text has
\* fewer than 50 characters, whatever the member list is, and in SUCCESS
\* when it has 50 or more.
C12_GhostOrSuccess ==
    (w_pc = "done" /\ Len(w_resps) = 2 /\ IsResp(w_resps[2])) =>
        IF TextLen(clean_speech_text(w_raw)) < GhostLen
        THEN w_out = Skip("Empty/Header Only")
        ELSE w_out.status = "SUCCESS"

\* A floor-section granule with an empty member list, whose normalized
\* text is "Mr. SMITH of Texas. I yield back the balance of my time.", has
\* run to its end.
YieldBackRun ==
    /\ w_pc = "done"
    /\ FilterStep(w_gran) = NoOutcome
    /\ w_json.kind = "object"
    /\ w_json.members = "empty"
    /\ w_raw # <<>>
    /\ clean_speech_text(w_raw) = <<Phrase(Len(YieldBackText))>>

\* C30 as stated: such a granule ends in SKIP with reason
\* "Empty/Header Only".
C30_YieldBackSkipped == YieldBackRun => w_out = Skip("Empty/Header Only")

\* C30, amended: the text has 56 characters, not fewer than 50, so such a
\* granule ends in SUCCESS, unmapped, with the speaker the courtesy title
\* gives ("Mr. Smith").
C30_YieldBackSaved ==
    YieldBackRun =>
        /\ TextLen(clean_speech_text(w_raw)) >= GhostLen
        /\ w_out.status = "SUCCESS"
        /\ w_out.data.speech = clean_speech_text(w_raw)
        /\ w_out.data.speaker = <<"M", "r", ".", " ", "S", "m", "i", "t", "h">>
        /\ w_out.data.lastname = <<"S", "m", "i", "t", "h">>
        /\ w_out.data.is_mapped = 0
        /\ w_out.data.speakerid = -1

C30_Witness == YieldBackRun /\ w_out.status = "SUCCESS"

\* C33: every SUCCESS record is mapped (is_mapped = 1) exactly when the
\* member list of the granule was not empty, and a record that is not
\* mapped has speaker id -1 and party, state and first name "Unknown",
\* whether the courtesy title at the start of the text gave a name or not.
C33_MappedIffMembers ==
    (w_pc = "done" /\ w_out.status = "SUCCESS") =>
        LET members == MembersOf(w_json)
            d == w_out.data
        IN /\ d.is_mapped \in {0, 1}
           /\ d.is_mapped = 1 <=> (members.kind = "list" /\ members.items # <<>>)
           /\ d.is_mapped = 0 =>
                /\ d.speakerid = -1
                /\ d.party = Unknown
                /\ d.state_x = Unknown
                /\ d.firstname = Unknown

\* A granule without members whose text starts with a courtesy title was
\* saved: the speaker and the last name come from the text, the record is
\* not mapped.
C33_Witness ==
    /\ w_pc = "done"
    /\ w_out.status = "SUCCESS"
    /\ MembersOf(w_json) \in {PyList(<<>>), PyNone}
    /\ w_out.data.is_mapped = 0
    /\ w_out.data.speaker # UnknownSpeaker
    /\ w_out.data.lastname # Unknown
    /\ w_out.data.firstname = Unknown

-----------------------------------------------------------------------------
(* Properties of the ingestion and of the store (checked under Spec)       *)

RowsOf(table, id) == {r \in table : r.speech_id = id}

\* The step is the batch write of a page (SavePage).
IsSavePage == pc = "collect" /\ pc' \in {"page", "mark"}
\* The step stops a run inside process_package.
IsInterruptInPackage == InPackage /\ pc' \in IngestEnded
\* The step ends a run normally (IngestFinish).
IsIngestFinish == pc = "packages" /\ pc' = "idle" /\ pkg_i > Len(all_packages)
\* The step passes over a package (SkipPackage).
IsSkipPackage == pc = "packages" /\ pc' = "packages" /\ pkg_i' = pkg_i + 1
\* The step is the ledger write (MarkDone).
IsMarkDone == pc = "mark" /\ pc' = "packages"

\* C1: a package id enters processed_packages only when every granule of
\* the package has reached an outcome in the process_package call that
\* writes it, whatever the Fetch Client answered (a null granule-listing
\* page included).
C1_LedgerOnlyAfterAllGranules ==
    [][\A p \in PkgIds :
         (p \notin processed_packages /\ p \in processed_packages')
            => GranulesOf(p) \subseteq attempted]_vars

\* C2: in every step, of the ingestion or of the classification job, a row
\* whose is_procedure is not NULL keeps a non-NULL is_procedure, and the
\* batch write of the ingestion leaves the is_procedure of every row that
\* exists as it is.
C2_IsProcedureMonotonic ==
    [][\A r \in speeches :
         /\ r.is_procedure # NULL =>
              \E q \in speeches' : q.speech_id = r.speech_id /\ q.is_procedure # NULL
         /\ IsSavePage =>
              \E q \in speeches' : q.speech_id = r.speech_id /\ q.is_procedure = r.is_procedure]_vars

\* C3: the table never holds two rows with one speech_id, and a batch write
\* leaves, for every tuple written, exactly one row with its id: the row a
\* first ingestion of that tuple makes, also when a row with the same data
\* was there before.
C3_IdempotentUpsert ==
    [][/\ \A r, q \in speeches' : r.speech_id = q.speech_id => r = q
       /\ IsSavePage =>
            \A d \in SeqRange(results_to_insert) :
                RowsOf(speeches', d.speech_id) = {Row(d)}]_vars

\* The row of gH1 was written a second time with the data it already held.
C3_Witness ==
    /\ gH1 \in rewritten
    /\ Cardinality(RowsOf(speeches, gH1)) = 1
    /\ pc \in {"page", "mark"}

\* C4: a package whose processing is interrupted is not in
\* processed_packages after the interrupt; a later run does not pass over
\* it, and a run that lists it and ends normally has called
\* process_package for it again and has it in processed_packages; the
\* ledger write of process_package puts it there; no step leaves two rows
\* with one speech_id.
C4_ResumeAfterInterrupt ==
    [][/\ IsInterruptInPackage => Cur.packageId \notin processed_packages'
       /\ \A p \in PkgIds : (pc' \in IngestEnded /\ interrupted'[p] >= 0) => p \notin processed_packages'
       /\ IsSkipPackage => (interrupted[Cur.packageId] = -1 \/ Cur.packageId \in called)
       /\ IsMarkDone => Cur.packageId \in processed_packages'
       /\ IsIngestFinish =>
            \A k \in 1..Len(all_packages) :
                /\ all_packages[k].packageId \in processed_packages
                /\ interrupted[all_packages[k].packageId] >= 0 =>
                     all_packages[k].packageId \in called
       /\ \A r, q \in speeches' : r.speech_id = q.speech_id => r = q]_vars

\* P1 was interrupted after 1 or 2 of its 3 granules, with the row of gH1
\* stored; this run processed it again, rewrote that row and marked it done.
C4_Witness ==
    /\ pc = "packages"
    /\ interrupted[P1.packageId] \in {1, 2}
    /\ P1.packageId \in called
    /\ P1.packageId \notin start_ledger
    /\ P1.packageId \in processed_packages
    /\ gH1 \in rewritten
    /\ Cardinality(RowsOf(speeches, gH1)) = 1

\* C5: for a package in processed_packages when the run started, the run
\* never calls process_package and issues no granule-listing or granule
\* fetch; the batch writes of the run leave the rows of its granules as they
\* are, and it stays in the ledger.
C5_DonePackageUntouched ==
    [][\A p \in start_ledger' :
         /\ p \notin called'
         /\ p \notin fetched'
         /\ InPackage' => Cur'.packageId # p
         /\ p \in processed_packages'
         /\ (p \in start_ledger /\ IsSavePage) =>
              \A g \in GranulesOf(p) : RowsOf(speeches', g) = RowsOf(speeches, g)]_vars

\* The run found P1 done (its row of gH1 stored), passed over it, and
\* processed P2.
C5_Witness ==
    /\ pc = "packages"
    /\ start_ledger = {P1.packageId}
    /\ all_packages = <<P1, P2>>
    /\ pkg_i = 3
    /\ called = {P2.packageId}
    /\ fetched = {P2.packageId}
    /\ RowsOf(speeches, gH1) # {}

\* C25: in process_package every write to the store is made by the
\* orchestrating thread when no worker of the page is running: a step of the
\* ingestion changes the speeches table only as the batch write of a page,
\* the ledger only as the ledger write, both with no future of the page
\* pending, and no step makes the two writes together.
C25_WritesAfterPool ==
    [][UNCHANGED classifyVars =>
         /\ IsSavePage => pending = {}
         /\ speeches' # speeches => IsSavePage
         /\ processed_packages' # processed_packages => (IsMarkDone /\ pending = {})
         /\ speeches' = speeches \/ processed_packages' = processed_packages]_vars

\* A page of two or more granules was handed to the pool, every worker has
\* finished, and the batch of the page is in the table.
C25_Witness ==
    /\ pc \in {"page", "mark"}
    /\ Len(granules) >= 2
    /\ pending = {}
    /\ SeqRange(granules) \subseteq attempted
    /\ results_to_insert # <<>>
    /\ \A d \in SeqRange(results_to_insert) : RowsOf(speeches, d.speech_id) # {}

\* The step takes the result of one future (WorkerDone).
IsWorkerDone == pc = "collect" /\ pc' = "collect" /\ pending' # pending

\* C27: the SUCCESS records of a page are collected one per granule of the
\* page and written by the one batch write of the page, which leaves a row
\* for each of them, and no other step of process_package writes the table;
\* in the step in which a granule ends in ERROR the failure log gains an
\* entry with the granule id and the reason, the log loses no entry, and
\* when the package is marked done every granule of it that ended in ERROR
\* has its entry.
C27_BatchAndFailureLog ==
    [][UNCHANGED classifyVars =>
         /\ IsWorkerDone =>
              /\ speeches' = speeches
              /\ \/ results_to_insert' = results_to_insert
                 \/ \E g \in pending \ pending' :
                      /\ Len(results_to_insert') = Len(results_to_insert) + 1
                      /\ results_to_insert'[Len(results_to_insert')].speech_id = g
         /\ IsSavePage =>
              /\ \A d \in SeqRange(results_to_insert) :
                     /\ d.speech_id \in SeqRange(granules)
                     /\ HoldsData(speeches', d)
              /\ \A r \in speeches' \ speeches :
                     \E d \in SeqRange(results_to_insert) : r.speech_id = d.speech_id
         /\ \A g \in errored' \ errored :
              \E e \in fail_log' : e.gran_id = g /\ e.reason # ""
         /\ fail_log \subseteq fail_log'
         /\ IsMarkDone =>
              \A g \in errored : \E e \in fail_log : e.gran_id = g /\ e.reason # ""]_vars

\* Of the granules of a package one ended in ERROR and is in the failure
\* log, another ended in SUCCESS and the batch of its page is in the table;
\* the package is about to be marked done.
C27_Witness ==
    /\ pc = "mark"
    /\ results_to_insert # <<>>
    /\ \A d \in SeqRange(results_to_insert) : HoldsData(speeches, d)
    /\ errored # {}
    /\ \A g \in errored : \E e \in fail_log : e.gran_id = g /\ e.reason # ""

\* C34: when every page of the granule listing is answered, with the same
\* count and with the page size or fewer granules, process_package hands
\* every granule of the package to a worker before the package is marked
\* done: at the batch write after which the count test ends the page loop,
\* the granules dispatched are the granules of the package.
C34_EveryGranuleDispatched ==
    [][(IsSavePage /\ pc' = "mark") => attempted = GranulesOf(Cur.packageId)]_vars

\* C36: in process_package the ledger insert is the last write to the store
\* and follows the commit of every page: the ledger changes only in the
\* ledger write, which adds the package at hand and nothing else and leaves
\* the table and the failure log as they are; in that step every granule of
\* the package that ended in SUCCESS in this run has its row in the table
\* and the records of the last batch are held in full; and no step of either
\* job takes a row away, so the rows are there in every later state.
C36_LedgerAfterCommits ==
    [][/\ processed_packages' # processed_packages =>
            /\ IsMarkDone
            /\ processed_packages' = processed_packages \cup {Cur.packageId}
            /\ speeches' = speeches
            /\ fail_log' = fail_log
            /\ \A g \in produced : RowsOf(speeches, g) # {}
            /\ \A d \in SeqRange(results_to_insert) : HoldsData(speeches, d)
       /\ \A r \in speeches : RowsOf(speeches', r.speech_id) # {}]_vars

\* A package was processed in this run and is in the ledger, and granules of
\* it have their rows in the table.
C36_Witness ==
    /\ pc = "packages"
    /\ \E p \in (processed_packages \cap called) \ start_ledger :
         \E g \in GranulesOf(p) : RowsOf(speeches, g) # {}

\* The step is a step of the classification job (Stage A or Stage B).
IsClassifyStep == cl_pc' # cl_pc

\* The row with its is_procedure column blanked.
OtherColumns(r) == [r EXCEPT !.is_procedure = NULL]

\* C37: Stage A and Stage B change no column of speeches other than
\* is_procedure, insert and delete no row of speeches, and neither read nor
\* write processed_packages: a step of the job leaves the ledger and the
\* failure log as they are, the table has the same rows after it as before
\* up to is_procedure, and what the step reads (the matches of Stage A, the
\* chunk of Stage B) is given by the table alone, whatever the ledger holds.
C37_OnlyIsProcedure ==
    [][IsClassifyStep =>
         /\ processed_packages' = processed_packages
         /\ fail_log' = fail_log
         /\ Cardinality(speeches') = Cardinality(speeches)
         /\ {OtherColumns(r) : r \in speeches'} = {OtherColumns(r) : r \in speeches}
         /\ (cl_pc \in ClassifyEnded /\ cl_matches' # {}) =>
              cl_matches' = {r.speech_id : r \in {c \in Unclassified(speeches) :
                                 TextLen(c.speech) < PurgeMaxLen /\ ContainsKeyword(c.speech)}}
         /\ (cl_pc = "fetchB" /\ cl_pc' \in {"idle", "chunkB"}) =>
              /\ cl_chunk' \subseteq {r.speech_id : r \in Unclassified(speeches)}
              /\ Cardinality(cl_chunk') = Min(CHUNK_SIZE, Cardinality(Unclassified(speeches)))]_vars

\* The job has run to its end over a store whose ledger holds a package:
\* every row is classified, rows as procedure and rows as debate, and each
\* row still has the columns the ingestion gave it.
C37_Witness ==
    /\ cl_pc = "idle"
    /\ processed_packages # {}
    /\ \E r \in speeches : r.is_procedure = 1
    /\ \E r \in speeches : r.is_procedure = 0
    /\ \A r \in speeches : r.is_procedure # NULL /\ r.speech # <<>>

\* C28: a timeout, a 5xx answer or a malformed body on any fetch (package
\* listing, granule listing, metadata, text) ends, after the bounded
\* retries, in a logged ERROR outcome of the granule concerned and never
\* ends ingest_range: no run is ended by an exception of a fetch.
C28_FetchFailureNotFatal == pc # "crashed"

\* The step stops the ingestion from outside (Interrupt).
IsInterrupt == pc \notin IngestEnded /\ pc' = "idle" /\ ~IsIngestFinish
\* The step stops the classification job on a KeyboardInterrupt.
IsStageBInterrupt == cl_pc # "stopped" /\ cl_pc' = "stopped"

\* C29: an interrupt takes effect only between packages (ingestion) or
\* between chunks (classification), never in the middle of a batch: the
\* ingestion is stopped only when it is in no call of process_package, the
\* classification only when no chunk has been read and not yet written.
C29_StopBetweenUnits ==
    [][/\ IsInterrupt => ~InPackage
       /\ IsStageBInterrupt => cl_pc = "fetchB"]_vars

-----------------------------------------------------------------------------
(* Properties of the classification job (checked under SpecClassify)       *)

\* The step is the bulk write of a Stage B chunk (StageBWrite).
IsStageBWrite == cl_pc = "writeB" /\ cl_pc' = "fetchB"
\* The step ends the Stage B loop normally: the fetch gave no row.
IsStageBExit == cl_pc = "fetchB" /\ cl_pc' = "idle"
\* The step ends the job inside the Stage B loop with sys.exit(1).
IsStageBFailure == cl_pc \in {"fetchB", "chunkB", "writeB"} /\ cl_pc' = "failed"
\* The step is a write of Stage A (StageAUpdate).
IsStageAWrite == cl_pc = "updateA" /\ speeches' # speeches

\* C13: the bulk write of Stage B gives every row of the chunk
\* is_procedure 1 when the classifier's top label for it is "administrative
\* procedure" with a score above 0.70 and 0 otherwise: that label at exactly
\* 0.70 gives 0, at 0.71 gives 1, and "political debate" gives 0.
C13_ThresholdStrict ==
    [][IsStageBWrite =>
         \A r \in cl_results :
            /\ RowsOf(speeches', r.speech_id) # {}
            /\ \A q \in RowsOf(speeches', r.speech_id) :
                 /\ q.is_procedure =
                      IF r.top_label = "administrative procedure" /\ r.score > CONFIDENCE_THRESHOLD
                      THEN 1 ELSE 0
                 /\ (r.top_label = "administrative procedure" /\ r.score = 70) => q.is_procedure = 0
                 /\ (r.top_label = "administrative procedure" /\ r.score = 71) => q.is_procedure = 1
                 /\ r.top_label = "political debate" => q.is_procedure = 0]_vars

\* The classifier gave "administrative procedure" at exactly 0.70 for gH1,
\* and the update to be written for gH1 is 0.
C13_Witness ==
    /\ cl_pc = "writeB"
    /\ cl_results = {[speech_id |-> gH1, top_label |-> "administrative procedure", score |-> 70]}
    /\ cl_updates = {[is_proc |-> 0, speech_id |-> gH1]}

\* C14: no step of the classification job changes a row whose is_procedure
\* is not NULL: such a row is the same after every step of Stage A and of
\* Stage B, in the first run and in every later one.
C14_ClassifiedRowsKept ==
    [][\A r \in speeches : r.is_procedure # NULL => r \in speeches']_vars

\* A job that found classified rows when it started has classified the
\* rest: Stage B is about to find nothing, with rows of both values.
C14_Witness ==
    /\ cl_prior
    /\ cl_pc = "fetchB"
    /\ Cardinality(speeches) >= 2
    /\ Unclassified(speeches) = {}
    /\ \E r, q \in speeches : r.is_procedure = 0 /\ q.is_procedure = 1

\* C15: with no other writer, every bulk write of Stage B leaves each row
\* of its chunk with a non-NULL is_procedure and strictly fewer
\* unclassified rows than before; the loop exits normally only when no row
\* is unclassified; and the loop, once entered, comes to an end.
C15_StageBTerminates ==
    /\ [][IsStageBWrite =>
            /\ \A x \in cl_chunk : \A q \in RowsOf(speeches', x) : q.is_procedure # NULL
            /\ Cardinality(Unclassified(speeches')) < Cardinality(Unclassified(speeches))]_vars
    /\ [][IsStageBExit => Unclassified(speeches') = {}]_vars
    /\ (cl_pc = "fetchB") ~> (cl_pc \in ClassifyEnded)

\* The loop ran to its end over three rows, at least two of them written by
\* Stage B in separate chunks.
C15_Witness ==
    /\ cl_pc = "idle"
    /\ Cardinality(speeches) = 3
    /\ Unclassified(speeches) = {}
    /\ Cardinality({r \in speeches : r.is_procedure = 0}) >= 2

\* C16: an exception inside the Stage B loop ends the job as failed with the
\* table as it was: no row of the chunk is written and the rows of earlier
\* chunks keep their values.  A chunk is written whole or not at all.  No
\* step changes a classified row, and every fetch, of a restarted job too,
\* takes unclassified rows only.
C16_ChunkAtomic ==
    [][/\ IsStageBFailure => speeches' = speeches
       /\ cl_pc \in {"chunkB", "writeB"} =>
            \/ speeches' = speeches
            \/ \A x \in cl_chunk : \A q \in RowsOf(speeches', x) : q.is_procedure # NULL
       /\ \A r \in speeches : r.is_procedure # NULL => r \in speeches'
       /\ (cl_pc = "fetchB" /\ cl_pc' = "chunkB") =>
            /\ cl_chunk' # {}
            /\ \A x \in cl_chunk' : \E r \in Unclassified(speeches) : r.speech_id = x]_vars

\* The job failed with one chunk written by Stage B and a row still
\* unclassified.
C16_Witness ==
    /\ cl_pc = "failed"
    /\ \E r \in speeches : r.is_procedure = 0
    /\ Unclassified(speeches) # {}

\* C38: an exception of Stage A (in the read, the scan or the update) is
\* caught inside Stage A.  Every step taken from Stage A leads to the update
\* or on to Stage B, never to an ended job; a step from the update either
\* marks every match or leaves the table as it was, and a step from the
\* read and scan leaves the table as it was; and whenever Stage B is at its
\* fetch, each row that is still NULL can be its next chunk, the short
\* procedural rows among them.
C38_StageAFailureContained ==
    [][/\ cl_pc \in ClassifyEnded \cup {"updateA"} => cl_pc' \in {"updateA", "fetchB"}
       /\ cl_pc \in ClassifyEnded => speeches' = speeches
       /\ cl_pc = "updateA" =>
            \/ speeches' = speeches
            \/ \A x \in cl_matches : \A q \in RowsOf(speeches', x) : q.is_procedure = 1
       /\ cl_pc = "fetchB" =>
            \A r \in Unclassified(speeches) : ENABLED (StageBFetch /\ r.speech_id \in cl_chunk')]_vars

\* Stage A raised and Stage B ran in its place: a short row with a
\* procedural phrase, which Stage A marks 1, was classified 0 by Stage B.
C38_Witness ==
    /\ cl_pc \in {"fetchB", "idle"}
    /\ \E r \in speeches : /\ TextLen(r.speech) < PurgeMaxLen
                             /\ ContainsKeyword(r.speech)
                             /\ r.is_procedure = 0

\* C17: a write of Stage A sets is_procedure to 1 for the rows that are
\* unclassified, shorter than 500 characters and hold one of the fixed
\* phrases, and leaves every other row as it is (so it writes no 0).
C17_StageAExact ==
    [][IsStageAWrite =>
         \A r \in speeches :
            IF r.is_procedure = NULL /\ TextLen(r.speech) < 500 /\ HoldsPhrase(r.speech)
            THEN [r EXCEPT !.is_procedure = 1] \in speeches'
            ELSE r \in speeches']_vars

-----------------------------------------------------------------------------
(* Properties of the two helpers (checked under SpecSanitize and SpecClean) *)

\* C18: whatever value _sanitize_metadata is called with (None, an empty
\* list, nested lists, an empty or nested mapping, an empty or blank string,
\* a plain string), the string it returns is not empty.
C18_SanitizeNonEmpty == sn_pc # "idle" => sn_out # <<>>

\* A string that neither starts nor ends with a blank.
NoSurroundingBlanks(chars) ==
    chars = <<>> \/ (chars[1] # " " /\ chars[Len(chars)] # " ")

\* C19: _sanitize_metadata called with the string it returned returns that
\* string again, and a string without surrounding whitespace is returned
\* as it is.
C19_SanitizeIdempotent ==
    /\ sn_pc = "again" => sn_again = sn_out
    /\ (sn_pc # "idle" /\ sn_in.kind = "str" /\ NoSurroundingBlanks(sn_in.s))
        => sn_out = sn_in.s

\* A string with blanks around it, found inside a list or a mapping, was
\* returned stripped and then passed in again.
C19_Witness ==
    /\ sn_pc = "again"
    /\ sn_in.kind \in {"list", "dict"}
    /\ sn_out \notin {<<>>, Unknown}
    /\ Str(Unlist(sn_in)) # sn_out
    /\ sn_again = sn_out

\* The fields of the or-chain the mapping holds, in the order of the chain.
PresentKeys(value) ==
    SelectSeq(SanitizeKeys, LAMBDA k : \E i \in 1..Len(value.pairs) : value.pairs[i].key = k)

\* C31: _sanitize_metadata takes the first element of a sequence until the
\* value is no sequence (an empty sequence gives None), resolves a mapping
\* to the first field it holds in the order authority-fnf, authority-lnf,
\* name, #text, value, and returns "Unknown" when the mapping holds none of
\* the fields or the input is empty or absent.
C31_SanitizeRule ==
    sn_pc # "idle" =>
        LET first == Unlist(sn_in)
        IN /\ first.kind = "none" => sn_out = Unknown
           /\ first = PyStr(<<>>) => sn_out = Unknown
           /\ first.kind = "dict" =>
                 IF PresentKeys(first) = <<>> THEN sn_out = Unknown
                 ELSE sn_out = _sanitize_metadata(Get(first, Head(PresentKeys(first))))

\* C20: clean_speech_text called with the text it returned returns that
\* text again, for raw texts built from boilerplate, stray closing brackets,
\* blanks and ordinary words.
C20_CleanStable == cs_pc = "again" => cs_again = cs_out

-----------------------------------------------------------------------------
(* Properties of the speaker resolution (checked under SpecResolve)        *)

\* C21: the speaker resolution raises for no member list and no text, and
\* with no member metadata and no courtesy title at the start of the text
\* it gives "Unknown Speaker", party and state "Unknown" and speaker id -1.
C21_ResolverNeverFails ==
    rs_pc = "called" =>
        /\ rs_out.exc = "none"
        /\ (~Truthy(rs_members) /\ ~\E i \in 1..Len(CourtesyTitles) : IsPrefix(CourtesyTitles[i], rs_text))
            => rs_out = Sentinel

\* The resolution came to its end for a member list that is not empty.
ResolvedMember ==
    /\ rs_pc = "called"
    /\ rs_members.kind = "list"
    /\ rs_members.items # <<>>
    /\ rs_out.exc = "none"

\* C22: with a member list that is not empty, the record takes name, party
\* and state from the first member only, is mapped, has the speaker id made
\* of the decimal digits of the bioguideId (-1 without a digit), renders
\* "Last, First" as "First Last", and its row has no is_procedure value;
\* {"Doe, Jane", D, CA, D000123} gives "Jane Doe", D, CA, 123.
C22_FirstMemberRecord ==
    ResolvedMember =>
        LET m == rs_members.items[1]
            bid == GetDefault(m, KeyBioguideId, PyNone)
        IN /\ rs_out.is_mapped = 1
           /\ rs_out = ResolveSpeaker(PyList(<<m>>), <<>>)
           /\ rs_out.party = _sanitize_metadata(GetDefault(m, KeyParty, PyStr(Unknown)))
           /\ rs_out.state = _sanitize_metadata(GetDefault(m, KeyState, PyStr(Unknown)))
           /\ bid.kind = "str" =>
                rs_out.bio_id_num = IF FilterDigits(bid.s) = <<>> THEN -1 ELSE ToInt(FilterDigits(bid.s))
           /\ GetDefault(m, KeyName, PyNone) = PyStr(<<"D", "o", "e", ",", " ", "J", "a", "n", "e">>) =>
                /\ rs_out.speaker_name = <<"J", "a", "n", "e", " ", "D", "o", "e">>
                /\ rs_out.lastname = <<"D", "o", "e">>
                /\ rs_out.firstname = <<"J", "a", "n", "e">>
           /\ m = JaneDoe =>
                /\ rs_out.party = <<"D">>
                /\ rs_out.state = <<"C", "A">>
                /\ rs_out.bio_id_num = 123
           /\ Row(DataTuple(<<>>, rs_text, 20110105, rs_out, "112")).is_procedure = NULL

\* The member of the example came first of two.
C22_Witness ==
    /\ ResolvedMember
    /\ rs_members = PyList(<<JaneDoe, OtherMember>>)
    /\ rs_out.speaker_name = <<"J", "a", "n", "e", " ", "D", "o", "e">>
    /\ rs_out.bio_id_num = 123

\* The sanitized name of the first member.
FirstMemberName ==
    _sanitize_metadata(GetDefault(rs_members.items[1], KeyName, PyStr(UnknownSpeaker)))

\* C32: when the name of the first member holds no comma, the first name is
\* its first word, the last name its last word, and the speaker name is
\* "{first} {last}", for names of one, two and more than two words.
C32_NoCommaName ==
    (ResolvedMember /\ "," \notin SeqRange(FirstMemberName) /\ SplitWords(FirstMemberName) # <<>>) =>
        LET parts == SplitWords(FirstMemberName)
        IN /\ rs_out.firstname = parts[1]
           /\ rs_out.lastname = parts[Len(parts)]
           /\ rs_out.speaker_name = parts[1] \o <<" ">> \o parts[Len(parts)]

-----------------------------------------------------------------------------
(* Properties of the read side (checked under SpecSubstantive, SpecShare)  *)

\* C23: is_substantive(text) is true exactly when the text has at least 10
\* words and the number of its adjacent-word bigrams that are in the
\* lexicon is less than 30% of the number of its adjacent-word bigrams.
C23_SubstantiveByBigrams ==
    sb_pc = "called" =>
        LET words == SplitWords(Lower(sb_text))
            bigrams == Bigrams(words)
            noise == Cardinality({i \in 1..Len(bigrams) : bigrams[i] \in sb_terms})
        IN sb_out = (Len(words) >= 10 /\ 100 * noise < 30 * Len(bigrams))

-----------------------------------------------------------------------------
(* Properties of the worker pool (checked under SpecPool)                   *)

\* C26: the workers of a page share no mutable state: what one worker
\* writes no other worker reads or writes while the pool runs.  A worker
\* that is in a request sends it on a connection its own call made, with
\* no cookie that the answer to the call of another granule left in the
\* session.
C26_WorkersShareNothing ==
    \A w \in Threads :
        pl_thread[w].conn # NoConn =>
            /\ pl_session.opened[pl_thread[w].conn] = pl_thread[w].gran
            /\ pl_thread[w].sent.by \in {NoCookie.by, pl_thread[w].gran}

-----------------------------------------------------------------------------
(* Properties of the rebuild (checked under SpecRebuild)                    *)

\* The step is an iteration of the for loop on a session whose files the
\* parser or the merge fails on.
IsMalformedSession == rb_pc = "running" /\ rb_i <= LastSession /\ rb_files'.kind = "malformed"

\* C35: for every session of the range, a failure while its legacy files
\* are parsed or loaded is caught for that session: the session is logged
\* and skipped, the rows of the other sessions stay as they are, and the
\* loop goes on to the next session; the rebuild ends when the range is
\* exhausted, and no step takes a row from the table.
C35_ParserFailureSkipped ==
    [][/\ IsMalformedSession =>
            /\ Len(rb_log') = Len(rb_log) + 1
            /\ rb_log'[Len(rb_log')] = [level |-> "ERROR", session |-> rb_i,
                                         what |-> "Critical Parser Failure"]
            /\ rb_table' = rb_table
            /\ rb_pc' = "running"
            /\ rb_i' = rb_i + 1
       /\ rb_table \subseteq rb_table'
       /\ (rb_pc = "running" /\ rb_pc' = "done") =>
            /\ rb_i > LastSession
            /\ \A r \in rb_table' : r.congress_session \in Sessions]_vars

\* The rebuild came to its end over a session that failed in the parser,
\* with rows of a session before it and of a session after it stored.
C35_Witness ==
    /\ rb_pc = "done"
    /\ \E k \in 1..Len(rb_log) :
         /\ rb_log[k].level = "ERROR"
         /\ \E r, q \in rb_table :
              r.congress_session < rb_log[k].session /\ rb_log[k].session < q.congress_session
         /\ \A r \in rb_table : r.congress_session # rb_log[k].session

====
